---- MODULE Spec2Model ----
(***************************************************************************)
(* Model of the demo chat core: the playback scheduler (SimulationEngine,  *)
(* src/unnamed/part_000) and the message pool with its generator view      *)
(* (src/message-pool.js).                                                  *)
(*                                                                         *)
(* The scheduler runs on one JavaScript event loop: every handler and      *)
(* every timer callback is one atomic action.  Timers carry no clock here: *)
(* a pending timer may fire at any later step, which covers every choice   *)
(* of the configurable delays (ratePerMin, typingMinMs, typingMaxMs, ...). *)
(***************************************************************************)
EXTENDS Integers, Sequences, FiniteSets, TLC

\* ---------------------------------------------------------------- bounds
\* Number of start() calls that allocate a run (a loop closure or a stream handle).
MaxRuns == 2
\* Number of messages picked for emission in one behaviour.
MaxEmit == 4
\* Length of MessagePool.messages / meta.size as seen by the scheduler.
PoolSize == 5
\* cfg.pageSize of the scheduler.
PageSize == 2
MaxIndex == 10
MaxClock == 1
MaxViewIndex == 3
MaxPrefetch == 2
MaxPool == 51
FarIndex == 600
\* a draw of the random generator is a multiple of 1 / DrawRes
DrawRes == 16

VARIABLES
    \* --- SimulationEngine module state (part_000:42-47)
    running, mainTimer, pageIdx, currentStreamer, cfg,
    \* --- environment of the scheduler
    pool,        \* "none": window.MessagePool missing; "virtual": no messages generated; "materialized";
                 \* "legacyEmpty", "legacySized": a MessagePool without createGeneratorView
                 \* that holds no messages (and, Sized, announces meta.size = PageSize)
    nextId,      \* next run id (names loop closures and stream handles)
    loop,        \* run id -> closure state of startManualStream (currentPageStart, currentPage, idxWithinPage)
    loopTimers,  \* run ids whose setTimeout(emitNext) is pending
    streamIdx,   \* run id -> idx of the streamToUI closure
    streamLive,  \* run ids whose streamToUI interval is still installed
    emitted,     \* messages picked for emission, in order: [m, run, kind]
    pending,     \* positions of emitted whose render waits behind a typing timer
    rendered,    \* positions of emitted in the order they reached window.renderMessage
    stops,       \* stop() calls since the last start() or triggerOnce(), counted up to 2
    started,     \* start() has been called
    badMsg,      \* the message window.renderMessage throws for (NoBad: it never throws)
    failed,      \* positions of emitted whose render threw
    escaped,     \* an exception of the sink left a handler (to its caller or the event loop)
    \* --- environment of the message pool
    now,         \* Date.now(), in milliseconds from the start of day 0
    people,      \* window.SyntheticPeople.people.length, 0 when none is loaded
    \* --- calls of MessagePool._generateMessageForIndex
    genArgs,     \* the arguments under study: [i, seedBase, size, spanDays, replyK]
    genCalls,    \* the messages returned for genArgs by the first and the latest call
    \* --- MessagePool module state (message-pool.js:118-119) and generatePool / accessors
    meta,        \* MessagePool.meta: size, seedBase, spanDays
    messages,    \* MessagePool.messages
    poolAsked,   \* the options of the last generatePool call: [size, seedBase, replyK], 0 for
                 \* an option left out
    poolRet,     \* <<[i, size, m]>>: the last getMessageByIndex(i) since generatePool, on
                 \* `size` messages, returned m (<<x>> for a message x, <<>> for null)
    \* --- one view made by createGeneratorView
    viewOpts,    \* pageSize, seedBase, spanDays, totalSize, cachePagesMax, allowWrap
    pageCache,   \* page key -> page (a function on the cached keys)
    pageOrder,   \* the keys by recency, most recent last
    watch,       \* the index whose returned messages are followed
    firstSeen,   \* <<m>>: the first call covering index watch returned m for it
    lastSeen,    \* <<m>>: the latest call covering index watch returned m for it
    cacheUse,    \* the page keys cached before or during the last call, by their last use
                 \* (insertion or hit), oldest first
    \* --- the delays of the manual loop (part_000:123, 177-180)
    sched,       \* ratePerMin and jitterFraction (in 1/100) of cfg, the last draw of
                 \* deterministicRnd (in 1/DrawRes), the jitterFraction read with it
                 \* and the delay scheduled with them
    \* --- TypingEngine (typing-engine.js:51-54) and its surroundings
    typing,      \* active, clearTimer (timer id, 0 for null), minDurationMs of cfg; the
                 \* durationMs of the last triggerTyping and the minDurationMs it read, the
                 \* time elapsed since, the number of triggers so far, the last call of the
                 \* typing sink and what cleared last
    typingTimers, \* the pending setTimeout callbacks: [id, left], left in milliseconds
    \* --- presence in the UI adapter (part_001:136-142, 433-461)
    presence,    \* now (Date.now()), members (<<lastActive>> each, <<>> for a missing
                 \* entry), the online count displayed, the elapsed times of the members
                 \* when it was counted, and the time steps taken
    \* --- the random draws of manual-mode runs (part_000:49-60, 123-181)
    conf,        \* the numeric options of cfg (part_000:28-40): seedBase (<<s>>, <<>> for
                 \* null), ratePerMin, pageSize, jitterFraction and simulateTypingFraction
                 \* (in 1/100), typingMinMs, typingMaxMs, typingPerCharMs; and whether a
                 \* call has set any
    synth,       \* SyntheticPeople (message.js:467-508): meta.size and meta.seedBase, the
                 \* options generatePool is called with (0 for an option left out), and the
                 \* directories returned by the first and the latest call
    ui,          \* the typing row of the page: whether the UI adapter (part_001) and
                 \* TypingEngine are loaded, whether #typingRow is active, the pending
                 \* timers that hide it [id, left, by], the timers made, and the time
                 \* left of the duration of the latest trigger of the scheduler's own path
    dedupe,      \* one generatePool run seen at the level of hashes (message-pool.js:227-242):
                 \* size, the index of the next pass, the recency list (oldest first), the
                 \* hashes handed out so far, the attempts of the last pass, whether the
                 \* hash it accepted was held by the list, whether the list has dropped a
                 \* hash, and the length of the array returned (<<>> while running)
    repro        \* seedBase (<<s>>, <<>> for null), simulateTypingBeforeSend, the text
                 \* lengths of the pool, deterministicRnd (its x, <<>> for Math.random), the
                 \* runs started, the cursor, the decisions and delays of the current run
                 \* and those of the run before, and the calls of the typing sink in the
                 \* current run (<<>> for an emission without one)

engineVars == <<running, mainTimer, pageIdx, currentStreamer, cfg, pool, nextId, loop,
                loopTimers, streamIdx, streamLive, emitted, pending, rendered, stops,
                started, badMsg, failed, escaped>>
sinkVars == <<badMsg, failed, escaped>>

genVars == <<genArgs, genCalls>>
poolVars == <<meta, messages, poolAsked, poolRet>>
viewVars == <<viewOpts, pageCache, pageOrder, watch, firstSeen, lastSeen, cacheUse>>
sideVars == <<sched, typing, typingTimers, ui, presence, repro, conf, synth, dedupe>>
coreVars == <<engineVars, now, people, genVars, poolVars, viewVars>>
\* all the variables but those of one part
notSched == <<coreVars, typing, typingTimers, ui, presence, repro, conf, synth, dedupe>>
notTyping == <<coreVars, sched, presence, repro, conf, synth, dedupe>>
notPresence == <<coreVars, sched, typing, typingTimers, ui, repro, conf, synth, dedupe>>
notRepro == <<coreVars, sched, typing, typingTimers, ui, presence, conf, synth, dedupe>>
notConf == <<coreVars, sched, typing, typingTimers, ui, presence, repro, synth, dedupe>>
notSynth == <<engineVars, people, genVars, poolVars, viewVars, sched, typing, typingTimers, ui,
              presence, repro, conf, dedupe>>
notDedupe == <<coreVars, sched, typing, typingTimers, ui, presence, repro, conf, synth>>
dataVars == <<now, people, genVars, poolVars, viewVars, sideVars>>

vars == <<engineVars, dataVars>>

\* ------------------------------------------------------------ small helpers
Min(a, b) == IF a < b THEN a ELSE b
Max(a, b) == IF a > b THEN a ELSE b
\* part_000:25 / message-pool.js:30
clamp(v, a, b) == Max(a, Min(b, v))
\* null, or an argument left out
Null == <<>>
\* a || b on numbers: 0 and undefined are falsy
Or(a, b) == IF a = 0 THEN b ELSE a

RunIds == 1..MaxRuns
NoLoop == [start |-> 0, page |-> <<>>, idx |-> 0]

\* ------------------------------------------------- generator view (indices)
\* message-pool.js:359-379 makePage, with the message at each slot named by its index.
\* totalSize = 0 stands for null (unknown size).
MakePageIndices(start, pageSize, totalSize, allowWrap) ==
    LET s == IF totalSize # 0 /\ start >= totalSize /\ allowWrap THEN start % totalSize ELSE start
        slot(i) == IF totalSize # 0 /\ s + i >= totalSize THEN (s + i) % totalSize ELSE s + i
        \* without wrap the loop breaks at the first slot beyond totalSize
        n == IF totalSize # 0 /\ ~allowWrap
             THEN (IF start >= totalSize THEN 0 ELSE Min(pageSize, totalSize - s))
             ELSE pageSize
    IN [i \in 1..n |-> slot(i - 1)]

\* part_000:90-111 buildMessageView: a fresh generator view with allowWrap: true;
\* its totalSize is messages.length or meta.size (message-pool.js:330).
\* part_000:100-107 without createGeneratorView the view is built on getRange, and its
\* totalSize is messages.length || meta.size || null (0 stands for null).
LegacyPools == {"legacyEmpty", "legacySized"}
ViewTotalSize == IF pool = "legacyEmpty" THEN 0
                 ELSE IF pool = "legacySized" THEN PageSize ELSE PoolSize
\* message-pool.js:265 getRange on no messages returns []
ViewNextPage(start) ==
    IF pool \in LegacyPools THEN <<>>
    ELSE MakePageIndices((start \div PageSize) * PageSize, PageSize, ViewTotalSize, TRUE)
\* message-pool.js:384-389 get on a fresh view (no cached page): genMessageAt, wrapping.
ViewGet(index) == IF index >= ViewTotalSize THEN index % ViewTotalSize ELSE index
\* part_000:104, 271 get on the getRange view of an empty pool returns nothing
ViewGetsNone == pool \in LegacyPools

\* --------------------------------------------------------------- scheduler
\* part_000:253-258 stop(): the three effects, as values.
TimersAfterStop == IF mainTimer # 0 THEN loopTimers \ {mainTimer} ELSE loopTimers
StreamsAfterStop == IF currentStreamer # 0 THEN streamLive \ {currentStreamer} ELSE streamLive

\* A stop() that also steps the cursor back, to replay the interrupted message.
StopRewinding ==
    /\ UNCHANGED dataVars
    /\ running' = FALSE
    /\ loopTimers' = TimersAfterStop
    /\ mainTimer' = 0
    /\ streamLive' = StreamsAfterStop
    /\ currentStreamer' = 0
    /\ stops' = Min(2, stops + 1)
    /\ pageIdx' = Max(0, pageIdx - 1)
    /\ UNCHANGED <<cfg, pool, nextId, loop, streamIdx, emitted, pending, rendered, started,
                   sinkVars>>

Stop ==
    /\ UNCHANGED dataVars
    /\ running' = FALSE
    /\ loopTimers' = TimersAfterStop
    /\ mainTimer' = 0
    /\ streamLive' = StreamsAfterStop
    /\ currentStreamer' = 0
    /\ stops' = Min(2, stops + 1)
    /\ UNCHANGED <<pageIdx, cfg, pool, nextId, loop, streamIdx, emitted, pending, rendered,
                   started, sinkVars>>

\* A page on which a view is built whatever was loaded.
ViewAlways == TRUE
\* part_000:90-111 buildMessageView() returns a view: window.MessagePool is there
HasView == pool # "none"

\* part_000:245 mode choice of start()
UseStream == cfg.useStreamAPI /\ ~cfg.simulateTypingBeforeSend /\ pool # "none"

\* part_000:238-251 start().  `recv` is the receiver of the call: line 242 is
\* this.stop().  Called as SimulationEngine.start() (recv = "engine") it runs the stop()
\* of lines 253-258, after line 240 has set running.  Called detached in this
\* non-strict script (as a listener or timer callback on window: recv = "global"),
\* this is window and line 242 runs the browser's window.stop(), which touches no
\* scheduler state.
Start(recv) ==
    /\ UNCHANGED dataVars
    /\ nextId <= MaxRuns
    /\ stops' = 0
    /\ started' = TRUE
    /\ UNCHANGED <<pageIdx, cfg, pool, emitted, pending, rendered, sinkVars>>
    /\ IF running
       THEN UNCHANGED <<running, mainTimer, currentStreamer, nextId, loop, loopTimers,
                        streamIdx, streamLive>>
       ELSE LET run1 == (recv # "engine")                       \* running after line 242
                timers1 == IF recv = "engine" THEN TimersAfterStop ELSE loopTimers
                main1 == IF recv = "engine" THEN 0 ELSE mainTimer
                live1 == IF recv = "engine" THEN StreamsAfterStop ELSE streamLive
                cur1 == IF recv = "engine" THEN 0 ELSE currentStreamer
            IN IF UseStream
               THEN \* part_000:188-219 startStreamAPI, message-pool.js:270-297 streamToUI
                    /\ running' = run1
                    /\ currentStreamer' = nextId
                    /\ streamLive' = IF pool = "materialized" THEN live1 \cup {nextId} ELSE live1
                    /\ streamIdx' = [streamIdx EXCEPT ![nextId] = clamp(pageIdx, 0, PoolSize - 1)]
                    /\ nextId' = nextId + 1
                    /\ loopTimers' = timers1
                    /\ mainTimer' = main1
                    /\ UNCHANGED loop
               ELSE \* part_000:114-185 startManualStream
                    IF ~run1
                    THEN /\ running' = FALSE
                         /\ loopTimers' = timers1 /\ mainTimer' = main1
                         /\ streamLive' = live1 /\ currentStreamer' = cur1
                         /\ UNCHANGED <<nextId, loop, streamIdx>>
                    ELSE IF ~HasView
                    THEN /\ running' = FALSE
                         /\ loopTimers' = timers1 /\ mainTimer' = main1
                         /\ streamLive' = live1 /\ currentStreamer' = cur1
                         /\ UNCHANGED <<nextId, loop, streamIdx>>
                    ELSE LET ps == (pageIdx \div PageSize) * PageSize
                         IN /\ running' = TRUE
                            /\ loop' = [loop EXCEPT ![nextId] =
                                          [start |-> ps, page |-> ViewNextPage(ps),
                                           idx |-> Max(0, pageIdx - ps)]]
                            /\ loopTimers' = timers1 \cup {nextId}
                            /\ mainTimer' = nextId
                            /\ nextId' = nextId + 1
                            /\ streamLive' = live1 /\ currentStreamer' = cur1
                            /\ UNCHANGED streamIdx

\* part_000:162 the typing decision: simulateTypingBeforeSend and a draw below
\* simulateTypingFraction (any outcome of the draw).
TypingChoices == IF cfg.simulateTypingBeforeSend THEN BOOLEAN ELSE {FALSE}

\* window.renderMessage(m, true) throws
SinkThrows(m) == m = badMsg
\* The same call with no try around it.
RenderUnguarded(m) == IF SinkThrows(m) THEN "thrown" ELSE "done"
\* part_000:171, 174, 283, 285 and message-pool.js:287
\* try{ window.renderMessage(m, true); }catch(e){ console.warn(...) }
TryRender(m) == IF SinkThrows(m) THEN "logged" ELSE "done"
\* the sink is called for position n of emitted
Render(n, m) ==
    /\ rendered' = Append(rendered, n)
    /\ failed' = IF SinkThrows(m) THEN failed \cup {n} ELSE failed
    /\ escaped' = (escaped \/ TryRender(m) = "thrown")

\* The shared tail of an emission: hand message m to the sink now, or behind a timer.
Emit(m, run, kind, doTyping) ==
    /\ emitted' = Append(emitted, [m |-> m, run |-> run, kind |-> kind])
    /\ IF doTyping
       THEN pending' = pending \cup {Len(emitted) + 1} /\ UNCHANGED <<rendered, failed, escaped>>
       ELSE Render(Len(emitted) + 1, m) /\ UNCHANGED pending

\* part_000:147-153 the page fetched after an empty page at start: from index 0 once
\* more, unless start is 0 already
RetryPage(start) == IF start # 0 THEN ViewNextPage(0) ELSE <<>>
\* a loop that returns on an empty pool without stopping the scheduler
GiveUpSilently(r) == [running |-> running, timers |-> loopTimers \ {r}, main |-> mainTimer]
\* part_000:150, 152 stop(); return, in the callback of run r's timer
GiveUp(r) == [running |-> FALSE, timers |-> (loopTimers \ {r}) \ {mainTimer}, main |-> 0]
\* part_000:133-181 emitNext, the callback of run r's loop timer.
EmitNext(r) ==
    /\ UNCHANGED dataVars
    /\ r \in loopTimers
    /\ Len(emitted) < MaxEmit
    /\ UNCHANGED <<cfg, pool, nextId, streamIdx, stops, started, badMsg>>
    /\ IF ~running
       THEN /\ loopTimers' = loopTimers \ {r}
            /\ UNCHANGED <<running, mainTimer, pageIdx, currentStreamer, loop, streamLive,
                           emitted, pending, rendered, failed, escaped>>
       ELSE LET l == loop[r]
                exhausted == l.idx >= Len(l.page)
                next1 == IF ViewTotalSize # 0 /\ l.start + PageSize >= ViewTotalSize
                         THEN 0 ELSE l.start + PageSize
                page1 == ViewNextPage(next1)
                \* lines 144-154: an empty page is retried once from index 0
                start2 == IF ~exhausted THEN l.start ELSE IF page1 = <<>> THEN 0 ELSE next1
                page2 == IF ~exhausted THEN l.page
                         ELSE IF page1 = <<>> THEN RetryPage(next1) ELSE page1
                idx2 == IF exhausted THEN 0 ELSE l.idx
            IN IF page2 = <<>>
               THEN \* stop(); return
                    /\ running' = GiveUp(r).running
                    /\ loopTimers' = GiveUp(r).timers
                    /\ mainTimer' = GiveUp(r).main
                    /\ streamLive' = StreamsAfterStop
                    /\ currentStreamer' = 0
                    /\ UNCHANGED <<pageIdx, loop, emitted, pending, rendered, failed, escaped>>
               ELSE /\ pageIdx' = start2 + idx2
                    /\ loop' = [loop EXCEPT ![r] = [start |-> start2, page |-> page2, idx |-> idx2 + 1]]
                    /\ \E doTyping \in TypingChoices :
                          /\ Emit(page2[idx2 + 1], r, "manual", doTyping)
                          \* lines 177-180 are not reached when the render of line 174 throws
                          /\ IF ~doTyping /\ TryRender(page2[idx2 + 1]) = "thrown"
                             THEN loopTimers' = loopTimers \ {r} /\ UNCHANGED mainTimer
                             ELSE mainTimer' = r /\ UNCHANGED loopTimers
                    /\ UNCHANGED <<running, currentStreamer, streamLive>>

\* message-pool.js:283-294 the interval callback of stream s, with the onEmit of
\* part_000:199-209.
StreamTick(s) ==
    /\ UNCHANGED dataVars
    /\ s \in streamLive
    /\ Len(emitted) < MaxEmit
    /\ LET i == streamIdx[s]
       IN /\ Emit(i, s, "stream", FALSE)
          /\ IF TryRender(i) = "thrown"
             THEN \* lines 288-292 are not reached
                  UNCHANGED <<pageIdx, streamIdx>>
             ELSE /\ pageIdx' = i + 1
                  /\ IF i + 1 >= PoolSize
                     THEN \E j \in 0..(Min(1000, PoolSize) - 1) :
                              streamIdx' = [streamIdx EXCEPT ![s] = j]
                     ELSE streamIdx' = [streamIdx EXCEPT ![s] = i + 1]
    /\ UNCHANGED <<running, mainTimer, currentStreamer, cfg, pool, nextId, loop, loopTimers,
                   streamLive, stops, started, badMsg>>

\* part_000:170-172 and 283: the timer that renders a message after its typing delay.
RenderDelayed(n) ==
    /\ UNCHANGED dataVars
    /\ n \in pending
    /\ pending' = pending \ {n}
    /\ Render(n, emitted[n].m)
    /\ UNCHANGED <<running, mainTimer, pageIdx, currentStreamer, cfg, pool, nextId, loop,
                   loopTimers, streamIdx, streamLive, emitted, stops, started, badMsg>>

\* A cursor that moves on by a page.
NextCursorByPage(i) == i + PageSize
\* part_000:273 pageIdx++
NextCursor(i) == i + 1

\* part_000:263-288 triggerOnce()
TriggerOnce ==
    /\ UNCHANGED dataVars
    /\ stops' = 0
    /\ UNCHANGED <<running, mainTimer, currentStreamer, cfg, pool, nextId, loop, loopTimers,
                   streamIdx, streamLive, started, badMsg>>
    /\ IF ~HasView \/ ViewGetsNone
       THEN UNCHANGED <<pageIdx, emitted, pending, rendered, failed, escaped>>
       ELSE /\ Len(emitted) < MaxEmit
            /\ pageIdx' = NextCursor(pageIdx)
            /\ \E doTyping \in TypingChoices : Emit(ViewGet(pageIdx), 0, "once", doTyping)

\* part_000:293 setSimulateTypingBeforeSend
SetSimulateTypingBeforeSend(b) ==
    /\ UNCHANGED dataVars
    /\ cfg.simulateTypingBeforeSend # b
    /\ cfg' = [cfg EXCEPT !.simulateTypingBeforeSend = b]
    /\ UNCHANGED <<running, mainTimer, pageIdx, currentStreamer, pool, nextId, loop,
                   loopTimers, streamIdx, streamLive, emitted, pending, rendered, stops,
                   started, sinkVars>>

\* no message makes the sink throw
NoBad == 0 - 1
\* the messages a failing sink throws for
BadMsgs == {0, 1}
\* part_000:28-47 the module's initial state, but for the sink
InitSchedulerOn(pools) ==
    /\ running = FALSE
    /\ mainTimer = 0
    /\ pageIdx = 0
    /\ currentStreamer = 0
    /\ cfg = [useStreamAPI |-> TRUE, simulateTypingBeforeSend |-> TRUE]
    /\ pool \in pools
    /\ nextId = 1
    /\ loop = [r \in RunIds |-> NoLoop]
    /\ loopTimers = {}
    /\ streamIdx = [r \in RunIds |-> 0]
    /\ streamLive = {}
    /\ emitted = <<>>
    /\ pending = {}
    /\ rendered = <<>>
    /\ stops = 0
    /\ started = FALSE
    /\ failed = {}
    /\ escaped = FALSE
\* the module as loaded beside this repository's message pool, or none
InitScheduler == InitSchedulerOn({"none", "virtual", "materialized"})
\* the module as loaded on a page whose sink never throws; the pool is whatever the
\* page loaded
InitEngine == InitScheduler /\ badMsg = NoBad
\* the same on a page whose sink throws for one message
InitEngineBadSink == InitScheduler /\ badMsg \in BadMsgs

StartMethod == Start("engine")
StartDetached == Start("global")
EmitNextStep == \E r \in RunIds : EmitNext(r)
StreamTickStep == \E s \in RunIds : StreamTick(s)
RenderDelayedStep == \E n \in 1..MaxEmit : RenderDelayed(n)
SetSimulateTypingStep == \E b \in BOOLEAN : SetSimulateTypingBeforeSend(b)

NextEngine ==
    \/ StartMethod
    \/ StartDetached
    \/ Stop
    \/ EmitNextStep
    \/ StreamTickStep
    \/ RenderDelayedStep
    \/ TriggerOnce
    \/ SetSimulateTypingStep

\* ------------------------------------------------------- scheduler: delays
\* Math.round(n / d) for d > 0
RoundDiv(n, d) == (2 * n + d) \div (2 * d)
\* part_000:123 baseIntervalMs = Math.round(60000 / Math.max(1, cfg.ratePerMin))
BaseIntervalMs(ratePerMin) == RoundDiv(60000, Max(1, ratePerMin))
\* part_000:178 Math.round((rnd - 0.5) * baseIntervalMs * jitterFraction) for the draw
\* rnd = u / DrawRes and jitterFraction = jitterK / 100
Jitter(base, jitterK, u) == RoundDiv((2 * u - DrawRes) * base * jitterK, 2 * DrawRes * 100)
\* a delay without the floor of 20 ms
NextDelayNoFloor(base, jitterK, u) == base + Jitter(base, jitterK, u)
\* part_000:179 nextDelay = Math.max(20, baseIntervalMs + jitter)
NextDelay(base, jitterK, u) == Max(20, base + Jitter(base, jitterK, u))

\* the rates and jitter fractions configured, and the draws
Rates == {1, 7, 45, 600, 2400, 3000, 4000}
JitterKs == {0, 25, 50, 99, 100}
DrawUnits == 0..(DrawRes - 1)
\* no delay scheduled yet
NoDelay == 0 - 1

\* part_000:291 setRate(r)
SetRate(r) ==
    /\ sched.ratePerMin # Max(1, r)
    /\ sched' = [sched EXCEPT !.ratePerMin = Max(1, r)]
    /\ UNCHANGED notSched
\* part_000:230 configure({jitterFraction: k / 100})
SetJitterFraction(k) ==
    /\ sched.jitterK # clamp(k, 0, 100)
    /\ sched' = [sched EXCEPT !.jitterK = clamp(k, 0, 100)]
    /\ UNCHANGED notSched
\* part_000:177-180 the end of emitNext: the next iteration is scheduled with draw u.
\* baseIntervalMs is the one startManualStream computed (123) from the rate at start.
ScheduleNext(u) ==
    /\ sched' = [sched EXCEPT !.draw = u, !.usedK = sched.jitterK,
                              !.delay = NextDelay(sched.base, sched.jitterK, u)]
    /\ UNCHANGED notSched
\* part_000:123 startManualStream fixes baseIntervalMs for the run
StartLoopTiming ==
    /\ sched.base # BaseIntervalMs(sched.ratePerMin)
    /\ sched' = [sched EXCEPT !.base = BaseIntervalMs(sched.ratePerMin), !.delay = NoDelay]
    /\ UNCHANGED notSched

\* part_000:32, 34 DEFAULTS.ratePerMin and DEFAULTS.jitterFraction
DefaultRate == 45
DefaultJitterK == 25
InitSchedIdle ==
    sched = [ratePerMin |-> DefaultRate, jitterK |-> DefaultJitterK,
             base |-> BaseIntervalMs(DefaultRate), draw |-> 0,
             usedK |-> DefaultJitterK, delay |-> NoDelay]
SetRateStep == \E r \in Rates \cup {0} : SetRate(r)
SetJitterFractionStep == \E k \in JitterKs \cup {150} : SetJitterFraction(k)
ScheduleNextStep == \E u \in DrawUnits : ScheduleNext(u)
NextDelays == SetRateStep \/ SetJitterFractionStep \/ StartLoopTiming \/ ScheduleNextStep

\* ----------------------------------------------------------- typing engine
\* a typing signal is triggered at most this many times
MaxTriggers == 3
\* typing-engine.js:43, 118 DEFAULTS.minDurationMs and the least configure accepts
DefaultMinDurationMs == 300
LeastMinDurationMs == 20
\* typing-engine.js:46-48 the automatic duration
AutoDurationPerNameMs == 900
AutoDurationMinMs == 700
AutoDurationMaxMs == 6000
\* the durations asked (Null: durationMs left out), the minDurationMs configured, the
\* numbers of names given and the steps of time
DurationsAsked == {100, 300, 500}
MinDurationsAsked == {10, 400}
TimeSteps == {100, 300}
\* typing-engine.js:44, 119 DEFAULTS.maxNames and the range configure keeps it in
DefaultMaxNames == 6
LeastMaxNames == 1
MostMaxNames == 20
\* typing-engine.js:139, 149 at most this many names are sampled
MostSampled == 4
\* A name is <<kind, n>>: the n-th name given, the displayName of sampleMembers[n] or of
\* people[n]; Falsy is a value of no name (null, '', a member without displayName).
Falsy == <<"", 0>>
Given(n) == <<"given", n>>
Member(n) == <<"member", n>>
Person(n) == <<"person", n>>
\* typing-engine.js:160 the placeholder
Someone == <<"Someone", 0>>
\* the name lists given to triggerTyping, the sampleMembers lists, the maxNames asked
\* and the outcomes of rnd() (in 1/DrawRes) of one call
NamesGiven == {<<>>, <<Falsy>>, <<Given(1)>>, <<Given(1), Given(2)>>,
               <<Given(1), Falsy, Given(2), Given(3)>>}
MemberLists == {<<>>, <<Falsy>>, <<Member(0), Member(1)>>,
                <<Member(0), Falsy, Member(2), Member(3), Member(4)>>}
MaxNamesAsked == {0, 2, 25}
NameDraws == {<<0, 0, 0, 0, 0>>, <<15, 0, 15, 7, 3>>, <<7, 4, 4, 4, 4>>,
              <<15, 15, 15, 15, 15>>}

\* the names of a list
NamesOf(list) == {list[k] : k \in 1..Len(list)}
\* Array.prototype.filter(Boolean) and slice(0, n)
Truthy(names) == SelectSeq(names, LAMBDA v : v # Falsy)
Slice(names, n) == SubSeq(names, 1, Min(n, Len(names)))
\* Math.floor(rnd() * n) for the outcome u / DrawRes
FloorOf(u, n) == (u * n) \div DrawRes
\* typing-engine.js:139, 149 count for a source of len entries
SampleCount(u, len, maxNames) == Min(maxNames, Max(1, FloorOf(u, Min(MostSampled, len)) + 1))
\* typing-engine.js:140-145, 150-154 the pick of count entries of source, each with a
\* draw of its own (draws[2], draws[3], ...), entries of no name left out
SamplePick(source, count, draws) ==
    Truthy([k \in 1..count |-> source[FloorOf(draws[k + 1], Len(source)) + 1]])
\* SyntheticPeople.people as names, for ppl persons (message.js:485 gives each a
\* displayName)
PeopleNames(ppl) == [k \in 1..ppl |-> Person(k - 1)]
\* A list that is handed on at its full length.
ProvidedUncut(names, members, ppl, maxNames, draws) ==
    LET given == Truthy(names)
    IN IF given # <<>> THEN given ELSE <<Someone>>
\* typing-engine.js:133-161 the list `provided` that triggerTyping hands to showTypingUI
Provided(names, members, ppl, maxNames, draws) ==
    LET given == Truthy(names)
        fromMembers ==
            IF given = <<>> /\ members # <<>>
            THEN SamplePick(members, SampleCount(draws[1], Len(members), maxNames), draws)
            ELSE given
        fromPeople ==
            IF fromMembers = <<>> /\ ppl > 0
            THEN SamplePick(PeopleNames(ppl), SampleCount(draws[1], ppl, maxNames), draws)
            ELSE fromMembers
    IN Slice(IF fromPeople = <<>> THEN <<Someone>> ELSE fromPeople, maxNames)

\* A duration that is the one asked, however short.
TypingDurationAsAsked(durationMs, nNames, minDurationMs) ==
    IF durationMs # Null
    THEN durationMs[1]
    ELSE clamp(nNames * AutoDurationPerNameMs, AutoDurationMinMs, AutoDurationMaxMs)
\* typing-engine.js:165-172 dur; durationMs is <<d>> for the number d
TypingDuration(durationMs, nNames, minDurationMs) ==
    IF durationMs # Null
    THEN Max(minDurationMs, durationMs[1])
    ELSE clamp(nNames * AutoDurationPerNameMs, AutoDurationMinMs, AutoDurationMaxMs)
\* A trigger that leaves the earlier timer pending.
KeepTimeout(timers, id) == timers
\* typing-engine.js:174-177, 190-193 if (clearTimer){ clearTimeout(clearTimer); ... }
ClearTimeout(timers, id) == {t \in timers : t.id # id}

\* part_001:172 the adapter hides the row 1000 + Math.random() * 1800 ms after it has
\* shown names
HideDelays == {1000, 2700}
\* part_001:157-175 window._abrox.showTyping(names), delay being the outcome of line 172
ShowTyping(u, names, delay) ==
    IF names = <<>> THEN [u EXCEPT !.row = FALSE]
    ELSE [u EXCEPT !.row = TRUE, !.n = u.n + 1,
                   !.timers = u.timers \cup {[id |-> u.n + 1, left |-> delay, by |-> "hide"]}]
\* typing-engine.js:57-91 showTypingUI(names): the adapter if there is one, else the row
ShowTypingUI(u, names, delay) ==
    IF u.adapter THEN ShowTyping(u, names, delay) ELSE [u EXCEPT !.row = names # <<>>]
\* typing-engine.js:93-109 clearTypingUI(): showTyping([]) and the row made inactive
ClearTypingUI(u) == [u EXCEPT !.row = FALSE]

\* typing-engine.js:131-187 triggerTyping(names, durationMs) with window.sampleMembers
\* = members and rnd() giving draws; the list handed to the sink is kept in list
TriggerTyping(names, members, draws, durationMs) ==
    /\ typing.triggers < MaxTriggers
    /\ ui.engine
    /\ LET provided == Provided(names, members, people, typing.maxNames, draws)
       IN /\ \E delay \in HideDelays : ui' = ShowTypingUI(ui, provided, delay)
          /\ typing' = [typing EXCEPT !.active = TRUE, !.clearTimer = typing.triggers + 1,
                                !.asked = durationMs, !.elapsed = 0,
                                !.minThen = typing.minDurationMs,
                                !.triggers = typing.triggers + 1, !.shown = "names",
                                !.cleared = "none", !.list = provided,
                                !.call = <<[names |-> names, members |-> members,
                                            maxNames |-> typing.maxNames]>>]
          /\ typingTimers' = ClearTimeout(typingTimers, typing.clearTimer) \cup
                         {[id |-> typing.triggers + 1,
                           left |-> TypingDuration(durationMs, Len(provided),
                                                   typing.minDurationMs)]}
    /\ UNCHANGED notTyping
\* typing-engine.js:183-186 the auto-clear callback of timer t, with clearTypingUI (93-109).
\* A timer runs when its delay has elapsed.
FireClear(t) ==
    /\ t \in typingTimers
    /\ t.left = 0
    /\ typingTimers' = typingTimers \ {t}
    /\ typing' = [typing EXCEPT !.active = FALSE, !.clearTimer = 0, !.shown = "empty",
                                !.cleared = "timer"]
    /\ ui' = ClearTypingUI(ui)
    /\ UNCHANGED notTyping
\* A clear() that takes the signal down and leaves its timer pending.
AfterClearKeepsTimer(ty, timers) ==
    [typing |-> [ty EXCEPT !.active = FALSE, !.clearTimer = 0, !.shown = "empty",
                           !.cleared = "clear"],
     timers |-> timers]
\* typing-engine.js:189-195 clear(): the engine and the timers it leaves
AfterClear(ty, timers) ==
    [typing |-> [ty EXCEPT !.active = FALSE, !.clearTimer = 0, !.shown = "empty",
                           !.cleared = "clear"],
     timers |-> ClearTimeout(timers, ty.clearTimer)]
ClearTyping ==
    /\ AfterClear(typing, typingTimers).typing # typing
    /\ typing' = AfterClear(typing, typingTimers).typing
    /\ typingTimers' = AfterClear(typing, typingTimers).timers
    /\ ui' = ClearTypingUI(ui)
    /\ UNCHANGED notTyping
\* typing-engine.js:118 configure({minDurationMs: v})
ConfigureMinDuration(v) ==
    /\ typing.minDurationMs # Max(LeastMinDurationMs, v)
    /\ typing' = [typing EXCEPT !.minDurationMs = Max(LeastMinDurationMs, v)]
    /\ UNCHANGED <<notTyping, typingTimers, ui>>
\* typing-engine.js:119 configure({maxNames: v})
ConfigureMaxNames(v) ==
    /\ typing.maxNames # clamp(v, LeastMaxNames, MostMaxNames)
    /\ typing' = [typing EXCEPT !.maxNames = clamp(v, LeastMaxNames, MostMaxNames)]
    /\ UNCHANGED <<notTyping, typingTimers, ui>>
\* dt milliseconds pass while timers are pending; no timer is overrun.
PassTime(dt) ==
    /\ typingTimers # {} \/ ui.timers # {}
    /\ \A t \in typingTimers \cup ui.timers : t.left >= dt
    /\ typingTimers' = {[t EXCEPT !.left = t.left - dt] : t \in typingTimers}
    /\ typing' = [typing EXCEPT !.elapsed = typing.elapsed + dt]
    /\ ui' = [ui EXCEPT !.timers = {[t EXCEPT !.left = t.left - dt] : t \in ui.timers},
                        !.due = Max(0, ui.due - dt)]
    /\ UNCHANGED notTyping
\* part_001:172 and part_000:74 the callback of a timer of the page: the row is hidden,
\* by the adapter's timer or by showTyping([])
FireHide(t) ==
    /\ t \in ui.timers
    /\ t.left = 0
    /\ ui' = [ui EXCEPT !.row = FALSE, !.timers = ui.timers \ {t}]
    /\ UNCHANGED <<notTyping, typing, typingTimers>>
\* part_000:63-79 triggerTypingForNames(names, durationMs) on a page without
\* TypingEngine: showTyping(names), and showTyping([]) durationMs + 80 ms later
TriggerTypingForNames(names, durationMs) ==
    /\ ~ui.engine /\ ui.adapter
    /\ ui.n < 2 * MaxTriggers
    /\ \E delay \in HideDelays :
          LET d == Max(50, Or(durationMs, 500))
              shown == ShowTyping(ui, names, delay)
          IN ui' = [shown EXCEPT !.n = shown.n + 1, !.due = d,
                                 !.timers = shown.timers \cup
                                     {[id |-> shown.n + 1, left |-> d + 80, by |-> "clear"]}]
    /\ UNCHANGED <<notTyping, typing, typingTimers>>

\* typing-engine.js:51-54 the module's initial state
InitTyping ==
    /\ typing = [active |-> FALSE, clearTimer |-> 0, minDurationMs |-> DefaultMinDurationMs,
                 asked |-> Null, minThen |-> DefaultMinDurationMs, elapsed |-> 0, triggers |-> 0, shown |-> "none",
                 cleared |-> "none", maxNames |-> DefaultMaxNames, list |-> <<>>,
                 call |-> Null]
    /\ typingTimers = {}
\* a page with TypingEngine and without the UI adapter
InitUiIdle ==
    ui = [adapter |-> FALSE, engine |-> TRUE, row |-> FALSE, timers |-> {}, n |-> 0,
          due |-> 0]
\* a page with the UI adapter, with and without TypingEngine
InitUi ==
    \E e \in BOOLEAN :
        ui = [adapter |-> TRUE, engine |-> e, row |-> FALSE, timers |-> {}, n |-> 0,
              due |-> 0]
TriggerTypingStep ==
    \E names \in {<<Given(1)>>, <<Given(1), Given(2)>>},
       d \in {<<a>> : a \in DurationsAsked} \cup {Null} :
        TriggerTyping(names, <<>>, <<0, 0, 0, 0, 0>>, d)
FireClearStep == \E t \in typingTimers : FireClear(t)
ConfigureMinDurationStep == \E v \in MinDurationsAsked : ConfigureMinDuration(v)
PassTimeStep == \E dt \in TimeSteps : PassTime(dt)
NextTyping ==
    \/ TriggerTypingStep
    \/ FireClearStep
    \/ ClearTyping
    \/ ConfigureMinDurationStep
    \/ PassTimeStep
\* triggerTyping with and without names, members and persons
TriggerNamesStep ==
    \E names \in NamesGiven, members \in MemberLists, draws \in NameDraws,
       d \in {<<300>>, Null} :
        TriggerTyping(names, members, draws, d)
ConfigureMaxNamesStep == \E v \in MaxNamesAsked : ConfigureMaxNames(v)
NextNames == TriggerNamesStep \/ ConfigureMaxNamesStep
\* the typing row under triggers of both paths, of durations shorter than the least
\* delay of the adapter's timer
IndicatorDurations == {300, 900}
TriggerIndicatorStep ==
    \E d \in IndicatorDurations : TriggerTyping(<<Given(1)>>, <<>>, <<0, 0, 0, 0, 0>>, <<d>>)
TriggerTypingForNamesStep ==
    \E d \in IndicatorDurations : TriggerTypingForNames(<<Given(1)>>, d)
FireHideStep == \E t \in ui.timers : FireHide(t)
\* time passes until the next timer is due
PassToTimerStep == \E t \in typingTimers \cup ui.timers : t.left > 0 /\ PassTime(t.left)
NextIndicator ==
    \/ TriggerIndicatorStep
    \/ TriggerTypingForNamesStep
    \/ FireClearStep
    \/ FireHideStep
    \/ PassTimeStep
    \/ PassToTimerStep

\* ----------------------------------------------------------------- presence
\* time passes at most this many times
MaxElapse == 2
\* A classification with the idle band closed at its upper end.
PresenceIdleClosed(m, t) ==
    IF m = Null THEN "offline"
    ELSE IF t - m[1] < 90 * 1000 THEN "online"
    ELSE IF t - m[1] <= 300 * 1000 THEN "idle"
    ELSE "offline"
\* part_001:136-142 window.presenceOf(m) at Date.now() = t; m.lastActive || 0 is
\* m.lastActive for a number
PresenceOf(m, t) ==
    IF m = Null THEN "offline"
    ELSE IF t - m[1] < 90 * 1000 THEN "online"
    ELSE IF t - m[1] < 300 * 1000 THEN "idle"
    ELSE "offline"
\* the times since lastActive met on the page, the clock readings and the steps of time
ElapsedTimes == {0 - 5000, 0, 30000, 89999, 90000, 200000, 299999, 300000, 400000}
ClockReadings == {400000, 500000}
PresenceSteps == {1, 60000}
\* message.js:530 how far back simulatePresenceStep puts lastActive
NudgeBacks == {0, 89999, 90000, 300000}
\* part_001:447-452 the loop counting the members that are online
RECURSIVE OnlineCount(_, _)
OnlineCount(list, t) ==
    IF list = <<>> THEN 0
    ELSE (IF Head(list) # Null /\ PresenceOf(Head(list), t) = "online" THEN 1 ELSE 0)
         + OnlineCount(Tail(list), t)
\* the time since lastActive of each member: <<d>>, <<>> for a missing entry
SinceActive(list, t) == [i \in 1..Len(list) |-> IF list[i] = Null THEN Null ELSE <<t - list[i][1]>>]

\* part_001:433-461 updateOnlineDisplay(): simulatePresenceStep (message.js:521-532)
\* nudges member idx, then the members online are counted and displayed.  A missing
\* entry makes the nudge throw, which line 436 swallows.
UpdateOnlineDisplay(idx, back) ==
    /\ LET ms == IF presence.members[idx] = Null THEN presence.members
                 ELSE [presence.members EXCEPT ![idx] = <<presence.now - back>>]
       IN presence' = [presence EXCEPT !.members = ms,
                                      !.online = OnlineCount(ms, presence.now),
                                      !.counted = SinceActive(ms, presence.now)]
    /\ UNCHANGED notPresence
\* dt milliseconds pass
Elapse(dt) ==
    /\ presence.steps < MaxElapse
    /\ presence' = [presence EXCEPT !.now = presence.now + dt, !.steps = presence.steps + 1]
    /\ UNCHANGED notPresence

\* no page loaded: nothing displayed yet
InitPresenceIdle ==
    presence = [now |-> 0, members |-> <<>>, online |-> 0, counted |-> <<>>, steps |-> 0]
\* a page with two members, each last active some time ago or missing
InitPresence ==
    \E t \in ClockReadings :
        \E a, b \in {<<t - d>> : d \in ElapsedTimes} \cup {<<0>>, Null} :
            presence = [now |-> t, members |-> <<a, b>>, online |-> 0, counted |-> <<>>,
                        steps |-> 0]
UpdateOnlineDisplayStep == \E idx \in 1..2, back \in NudgeBacks : UpdateOnlineDisplay(idx, back)
ElapseStep == \E dt \in PresenceSteps : Elapse(dt)
NextPresence == UpdateOnlineDisplayStep \/ ElapseStep

\* ------------------------------------------------------------ xorshift32
\* A 32-bit word is the pair <<high 16 bits, low 16 bits>>.
Half == 65536
RECURSIVE BitXor(_, _, _)
\* bitwise exclusive or of two n-bit numbers
BitXor(a, b, n) ==
    IF n = 0 THEN 0 ELSE ((a + b) % 2) + 2 * BitXor(a \div 2, b \div 2, n - 1)
\* the exclusive or of every pair of bytes, entry a * 256 + b + 1
XorTab == SubSeq([j \in 1..Half |-> BitXor((j - 1) \div 256, (j - 1) % 256, 8)], 1, Half)
Xor16(a, b) ==
    XorTab[(a \div 256) * 256 + (b \div 256) + 1] * 256
        + XorTab[(a % 256) * 256 + (b % 256) + 1]
Xor32(x, y) == <<Xor16(x[1], y[1]), Xor16(x[2], y[2])>>
\* x << 13, x >>> 17 and x << 5 on 32 bits
Shl13(x) == <<((x[1] % 8) * 8192) + (x[2] \div 8), (x[2] % 8) * 8192>>
Shr17(x) == <<0, x[1] \div 2>>
Shl5(x) == <<((x[1] % 2048) * 32) + (x[2] \div 2048), (x[2] % 2048) * 32>>
\* message-pool.js:23-25 the three updates of x
XorShl13(x) == Xor32(x, Shl13(x))
XorShr17(x) == Xor32(x, Shr17(x))
XorShl5(x) == Xor32(x, Shl5(x))
\* message-pool.js:22-25 one call of the closure returned by xorshift32: the new x
XorShiftStep(x) == XorShl5(XorShr17(XorShl13(x)))
\* the next n >= 1 values of x, in order (split in halves to keep the evaluation shallow)
RECURSIVE Draws(_, _)
Draws(x, n) ==
    IF n = 1 THEN <<XorShiftStep(x)>>
    ELSE LET left == Draws(x, n \div 2)
             right == Draws(left[Len(left)], n - (n \div 2))
         IN left \o right
\* message-pool.js:20 (seed >>> 0) || 0x811c9dc5, for 0 <= seed < 2^31
SeedWord(seed) == IF seed = 0 THEN <<33052, 40389>> ELSE <<seed \div Half, seed % Half>>
\* Math.floor(rnd() * n) for the draw x / 2^32 and 0 < n < 32768 (as in pickFrom,
\* message-pool.js:77)
Scale(x, n) == (x[1] * n + (x[2] * n) \div Half) \div Half
\* rnd() < k / 10000
Below(x, k) == Scale(x, 10000) < k
\* Math.floor(rnd() * 3600000), the draw of the timestamp jitter (message-pool.js:194)
ScaleHour(x) ==
    LET c == x[2] * 54 + (x[2] * 477) \div 512
    IN x[1] * 54 + (x[1] * 477 + c \div 128) \div 512

\* ------------------------------------------------ scheduler: seeded draws
\* the emissions followed in a run, and the runs started
ReproLen == 2
MaxReproRuns == 2
\* Math.floor(h * n / 65536) for 0 <= h < 65536 and 0 <= n < 2^23
MulHigh(h, n) == (h * (n \div 256) + (h * (n % 256)) \div 256) \div 256
\* Math.floor(rnd() * n) for the draw x / 2^32 and 0 <= n < 2^23
ScaleWide(x, n) == (x[1] * (n \div 256) + (x[1] * (n % 256) + MulHigh(x[2], n)) \div 256) \div 256
\* part_000:30-39 DEFAULTS
TypingMinMs == 300
TypingMaxMs == 1800
TypingPerCharMs == 45
TypingFractionK == 7500
\* A generator that is Math.random whatever the seed.
CreateRndUnseeded(seed) == Null
\* part_000:49-60 createRnd(seed): the x of the closure, <<>> for Math.random
CreateRnd(seed) == IF seed = Null THEN Null ELSE SeedWord(seed[1])
\* values Math.random may return, as x / 2^32
RandomWords == {<<0, 0>>, <<65535, 65535>>}
\* one call of deterministicRnd: the values it may return (v) with the generator left (x)
DrawFrom(x) ==
    IF x = Null THEN {[v |-> w, x |-> Null] : w \in RandomWords}
    ELSE {[v |-> XorShiftStep(x), x |-> XorShiftStep(x)]}
\* part_000:82-87 computeTypingDurationForMessage for a text of `chars` characters
ComputeTypingDuration(chars) == clamp(chars * TypingPerCharMs, TypingMinMs, TypingMaxMs)
\* a render delay jittered by up to 180 ms either way
RenderJitterWide(v) == ScaleWide(v, 360) - 180
\* part_000:172 Math.round((rnd - 0.5) * 180)
RenderJitter(v) == (ScaleWide(v, 360) + 1) \div 2 - 90
\* part_000:178 Math.round((rnd - 0.5) * baseIntervalMs * jitterFraction), jitterFraction
\* being jitterK / 100
LoopJitter(v, base, jitterK) ==
    (ScaleWide(v, 2 * base * jitterK) + 100) \div 200 - (base * jitterK) \div 200
       - (IF (ScaleWide(v, 2 * base * jitterK) + 100) % 200 < (base * jitterK) % 200 THEN 1 ELSE 0)
\* the message at position p of a pool of text lengths: a message of the generator
\* with no directory loaded (message-pool.js:133, 199-202)
ReproMessage(chars, p) ==
    [chars |-> chars, name |-> <<"Member_", p + 1>>, displayName |-> <<"Member ", p + 1>>]
\* part_000:164 the name typed for: m.displayName || m.name, or 'Someone'
SignalName(m) ==
    IF m.displayName # Null THEN m.displayName
    ELSE IF m.name # Null THEN m.name ELSE <<"Someone", 0>>
\* part_000:164-168, 64 the call of the typing sink for message m: the names and the
\* duration handed on, Math.max(50, Math.round(typingDur || 500))
TypingSignal(m) ==
    [names |-> <<SignalName(m)>>, durationMs |-> Max(50, ComputeTypingDuration(m.chars))]
\* part_000:161-180 what one emitNext decides for a message of `chars` characters with
\* the draws d1 (typing), d2 (render delay) and d3 (loop delay)
Decided(chars, typed, d2, d3) ==
    [typing |-> typed,
     render |-> IF typed THEN ComputeTypingDuration(chars) + RenderJitter(d2.v) ELSE 0,
     next |-> Max(20, BaseIntervalMs(DefaultRate)
                      + LoopJitter(d3.v, BaseIntervalMs(DefaultRate), DefaultJitterK))]

\* part_000:123-130 startManualStream from cursor 0: a new generator, a new run
ReproStart ==
    /\ repro.runs < MaxReproRuns
    /\ repro.runs > 0 => Len(repro.trace) = ReproLen
    /\ repro' = [repro EXCEPT !.x = CreateRnd(repro.seedBase), !.runs = repro.runs + 1,
                              !.pos = 0, !.trace = <<>>, !.signals = <<>>,
                              !.before = IF repro.runs > 0 THEN <<repro.trace>> ELSE <<>>]
    /\ UNCHANGED notRepro
\* part_000:133-181 emitNext of the run, its draws made in the order of lines 162, 172, 178
ReproEmit ==
    /\ repro.runs > 0
    /\ Len(repro.trace) < ReproLen
    /\ LET chars == repro.chars[(repro.pos % Len(repro.chars)) + 1]
       IN \E d1 \in DrawFrom(repro.x) :
            LET typed == repro.simulateTyping /\ Below(d1.v, TypingFractionK)
                x1 == IF repro.simulateTyping THEN d1.x ELSE repro.x
            IN \E d2 \in DrawFrom(x1) :
                 LET x2 == IF typed THEN d2.x ELSE x1
                 IN \E d3 \in DrawFrom(x2) :
                      repro' = [repro EXCEPT !.x = d3.x, !.pos = repro.pos + 1,
                                  !.trace = Append(repro.trace, Decided(chars, typed, d2, d3)),
                                  !.signals = Append(repro.signals,
                                      IF typed THEN <<TypingSignal(ReproMessage(chars, repro.pos))>>
                                      ELSE Null)]
    /\ UNCHANGED notRepro

\* the seeds configured and the pools played
ReproSeeds == {Null, <<0>>, <<7>>, <<12345>>}
ReproPools == {<<0, 3>>, <<5, 30, 60>>, <<12>>}
InitReproIdle ==
    repro = [seedBase |-> Null, simulateTyping |-> TRUE, chars |-> <<0>>, x |-> Null,
             runs |-> 0, pos |-> 0, trace |-> <<>>, before |-> <<>>,
                 signals |-> <<>>]
InitRepro ==
    \E sd \in ReproSeeds, st \in BOOLEAN, cs \in ReproPools :
        repro = [seedBase |-> sd, simulateTyping |-> st, chars |-> cs, x |-> Null,
                 runs |-> 0, pos |-> 0, trace |-> <<>>, before |-> <<>>,
                 signals |-> <<>>]
NextRepro == ReproStart \/ ReproEmit

\* ------------------------------------------------------ scheduler: options
\* An option of configure is <<v>> for the number v, Null when the option is left out
\* (undefined).  Fractions are in 1/100.
\* part_000:28-40 DEFAULTS
DefaultsPageSize == 200
DefaultTypingFractionK == 75
InitConf ==
    conf = [seedBase |-> Null, ratePerMin |-> DefaultRate, pageSize |-> DefaultsPageSize,
            jitterK |-> DefaultJitterK, typingFractionK |-> DefaultTypingFractionK,
            typingMinMs |-> TypingMinMs, typingMaxMs |-> TypingMaxMs,
            typingPerCharMs |-> TypingPerCharMs, touched |-> FALSE]

\* the value an option leaves in cfg: `set` of what was asked, or the old value
Opt(o, old, set(_)) == IF o = Null THEN old ELSE set(o[1])

\* part_000:223-236 configure(o) on the options c: each option present is set in the
\* order of the lines, typingMaxMs against the typingMinMs line 231 has just left
ConfigureOn(c, o) ==
    LET min1 == Opt(o.typingMinMs, c.typingMinMs, LAMBDA v : Max(10, v))
    IN [seedBase |-> IF o.seedBase = Null THEN c.seedBase ELSE o.seedBase,
        ratePerMin |-> Opt(o.ratePerMin, c.ratePerMin, LAMBDA v : Max(1, v)),
        pageSize |-> Opt(o.pageSize, c.pageSize, LAMBDA v : Max(1, v)),
        jitterK |-> Opt(o.jitterK, c.jitterK, LAMBDA v : clamp(v, 0, 100)),
        typingMinMs |-> min1,
        typingMaxMs |-> Opt(o.typingMaxMs, c.typingMaxMs, LAMBDA v : Max(min1, v)),
        typingPerCharMs |-> Opt(o.typingPerCharMs, c.typingPerCharMs, LAMBDA v : Max(1, v)),
        typingFractionK |-> Opt(o.typingFractionK, c.typingFractionK,
                                LAMBDA v : clamp(v, 0, 100)),
        touched |-> TRUE]

\* a setRate that takes the rate as asked
SetRateAsAsked(c, r) == [c EXCEPT !.ratePerMin = r, !.touched = TRUE]
\* part_000:291 setRate(r)
SetRateOn(c, r) == [c EXCEPT !.ratePerMin = Max(1, r), !.touched = TRUE]

\* the options configure is called with
ConfigureOpts ==
    [seedBase : {Null, <<7>>},
     ratePerMin : {Null, <<0>>, <<120>>},
     pageSize : {Null, <<0 - 3>>},
     jitterK : {Null, <<0 - 50>>, <<150>>},
     typingMinMs : {Null, <<5>>, <<2000>>},
     typingMaxMs : {Null, <<100>>, <<3000>>},
     typingPerCharMs : {Null, <<0>>},
     typingFractionK : {Null, <<0 - 1>>, <<250>>}]
RatesAsked == {0 - 5, 0, 1, 5000}

Configure(o) ==
    /\ conf' = ConfigureOn(conf, o)
    /\ UNCHANGED notConf
SetRateCall(r) ==
    /\ conf' = SetRateOn(conf, r)
    /\ UNCHANGED notConf
ConfigureStep == \E o \in ConfigureOpts : Configure(o)
SetRateCallStep == \E r \in RatesAsked : SetRateCall(r)
NextConf == ConfigureStep \/ SetRateCallStep

\* part_000:82-87 computeTypingDurationForMessage under the options c
TypingDurationUnder(c, chars) ==
    IF chars = 0 THEN c.typingMinMs
    ELSE clamp(chars * c.typingPerCharMs, c.typingMinMs, c.typingMaxMs)
\* the text lengths of the messages typed for
TextLengths == {0, 1, 20, 60, 5000}

\* ------------------------------------------------------- person directory
\* message.js:432 DEFAULT, :476 the least size of a directory, :461-464 the number of
\* names in namesSeed
DefaultPeopleSize == 4872
DefaultPeopleSeed == 2026
MinPeople == 10
NNames == 20
MaxPeople == 12
\* the outcomes of Math.random() told apart in the ids of one call
IdStreams == {0, 1}

\* Math.round(rnd() * 1000 * 60 * 60 * 48) for the draw x / 2^32 (message.js:494):
\* 172800000 = 2^11 * 84375, and x = a * 2^21 + c * 2^10 + d
BackMs(x) ==
    LET a == x[1] \div 32
        b == (x[1] % 32) * Half + x[2]
        c == b \div 1024
        d == b % 1024
    IN a * 84375 + (c * 84375 + 1024 + (d * 84375) \div 1024) \div 2048

\* message.js:485-486 displayName of person i: a seeded name (numbered from the second
\* on) or Member i+1
DisplayName(i) ==
    IF i < NNames THEN <<"seeded", i, IF i = 0 THEN 0 ELSE i + 1>> ELSE <<"Member", i + 1>>
\* message.js:488-491 the role of person i is drawn unless its name decides it
RoleDrawn(i) == i >= 2
\* message.js:430 uid(i): 'p_' + Math.random().toString(36).slice(2, 9) + '_' + i, the
\* random part being the i-th outcome of Math.random in the call
Uid(stream, i) == <<"p_", <<stream, i>>, i>>
\* message.js:484-504 person i from generator state x, at Date.now() = clock:
\* <<person, x after its draws>>
PersonAt(i, x, stream, clock) ==
    LET x1 == IF RoleDrawn(i) THEN XorShiftStep(x) ELSE x
        x2 == XorShiftStep(x1)
    IN <<[id |-> Uid(stream, i),
          name |-> <<"underscored", DisplayName(i)>>,
          displayName |-> DisplayName(i),
          role |-> IF i = 0 THEN "ADMIN" ELSE IF i = 1 THEN "MOD"
                   ELSE IF Below(x1, 90) THEN "MOD" ELSE "VERIFIED",
          avatar |-> <<i % 4, DisplayName(i)>>,
          lastActive |-> [clock |-> clock, back |-> BackMs(x2)]],
         x2>>
\* message.js:484-505 the loop: persons lo..hi in order from state x
RECURSIVE PeopleRange(_, _, _, _, _)
PeopleRange(lo, hi, x, stream, clock) ==
    IF lo > hi THEN <<>>
    ELSE LET p == PersonAt(lo, x, stream, clock)
         IN <<p[1]>> \o PeopleRange(lo + 1, hi, p[2], stream, clock)

\* the options generatePool is called with: 0 stands for an option left out
PeopleSizesAsked == {3, MinPeople, MaxPeople}
PeopleSeedsAsked == {0, 7, DefaultPeopleSeed}

\* message.js:474-508 SyntheticPeople.generatePool({size, seedBase}) with the options of
\* synth.asked
GeneratePeople(stream) ==
    LET size == Max(MinPeople, Or(synth.asked.size, Or(synth.size, DefaultPeopleSize)))
        seedBase == Or(synth.asked.seedBase, Or(synth.seedBase, DefaultPeopleSeed))
        out == PeopleRange(0, size - 1, SeedWord(seedBase), stream, now)
    IN /\ size <= MaxPeople
       /\ synth' = [synth EXCEPT !.size = size, !.seedBase = seedBase,
                                  !.first = IF synth.first = Null THEN <<out>> ELSE @,
                                  !.latest = <<out>>, !.step = Null]
       /\ UNCHANGED notSynth
       /\ UNCHANGED now
\* time passes between two calls
TickPeople ==
    /\ now < MaxClock
    /\ now' = now + 1
    /\ UNCHANGED <<notSynth, synth>>

InitSynthIdle ==
    synth = [size |-> DefaultPeopleSize, seedBase |-> DefaultPeopleSeed,
             asked |-> [size |-> 0, seedBase |-> 0], first |-> Null, latest |-> Null,
             step |-> Null, steps |-> 0]
InitSynthOn(sizes, seeds) ==
    \E sz \in sizes, sd \in seeds :
        synth = [size |-> DefaultPeopleSize, seedBase |-> DefaultPeopleSeed,
                 asked |-> [size |-> sz, seedBase |-> sd], first |-> Null, latest |-> Null,
                 step |-> Null, steps |-> 0]
InitSynth == InitSynthOn(PeopleSizesAsked, PeopleSeedsAsked)
GeneratePeopleStep == \E stream \in IdStreams : GeneratePeople(stream)
NextSynth == GeneratePeopleStep \/ TickPeople

\* message.js:524 the percent when none is given, and the range it is kept in (in 1/100)
DefaultPercent == 1
FullPercent == 100
\* message.js:530 the nudge reaches back 1000 * 60 * 5 ms at most
NudgeMs == 300000
\* the percents asked (Null: left out) and the outcomes of Math.random of one pick:
\* u / DrawRes for the index, back ms for the time
PercentsAsked == {Null, <<20>>, <<25>>}
MostPicks == 3
\* simulatePresenceStep is called at most this many times
MaxNudges == 1
NudgePicks == [u : {0, DrawRes - 1}, back : {0, NudgeMs}]
\* Math.round(n * k / 100)
RoundPercent(n, k) == (2 * n * k + 100) \div 200
\* message.js:524, 526 count for the people array ppl
NudgeCount(ppl, percent) ==
    Max(1, RoundPercent(Len(ppl), clamp(IF percent = Null THEN DefaultPercent
                                        ELSE Or(percent[1], DefaultPercent), 0, FullPercent)))
\* message.js:528-531 the loop from pick k on: the array after the picks
RECURSIVE Nudged(_, _, _, _)
Nudged(ppl, picks, k, clock) ==
    IF k > Len(picks) THEN ppl
    ELSE Nudged([ppl EXCEPT ![FloorOf(picks[k].u, Len(ppl)) + 1].lastActive =
                                [clock |-> clock, back |-> picks[k].back]],
                picks, k + 1, clock)
\* message.js:522-532 simulatePresenceStep({percent}) with the picks Math.random gives;
\* the people array is the one generatePool returned last
SimulatePresenceStep(percent, picks) ==
    /\ synth.latest # Null /\ synth.steps < MaxNudges
    /\ Len(picks) = NudgeCount(synth.latest[1], percent)
    /\ synth' = [synth EXCEPT !.latest = <<Nudged(synth.latest[1], picks, 1, now)>>,
                              !.steps = synth.steps + 1,
                              !.step = <<[before |-> synth.latest[1], percent |-> percent,
                                          clock |-> now,
                                          idx |-> [k \in 1..Len(picks) |->
                                                     FloorOf(picks[k].u,
                                                             Len(synth.latest[1])) + 1]]>>]
    /\ UNCHANGED <<notSynth, now>>
PresenceStep ==
    \E percent \in PercentsAsked, n \in 1..MostPicks :
        \E picks \in [1..n -> NudgePicks] : SimulatePresenceStep(percent, picks)
NextNudge == GeneratePeopleStep \/ TickPeople \/ PresenceStep

\* ------------------------------------------------------- message generator
\* message-pool.js:125 the per-index seed stride
SeedStride == 15721
\* message-pool.js:64-74 DEFAULT / meta, fractions in 1/10000
MinWords == 4
MaxWords == 28
ReplyFractionDefault == 600
AttachmentFraction == 400
PinnedFraction == 8
DefaultSize == 100000
DefaultSeedBase == 4000
MsPerDay == 86400000
\* message-pool.js:34-37, 38-59, 60-61 sizes of the vocabularies
NTokens == 14
NIndicators == 8
NTimeframes == 7
NOrders == 7
NPhrases == 20
NAttachTitles == 5
NEmoji == 11
NSaladWords == 12
NQuestions == 4
\* string lengths (UTF-16 units) of TOKENS, EMOJI and the token-salad words
TokenLen == <<3, 3, 3, 3, 4, 3, 3, 3, 5, 4, 3, 4, 2, 3>>
EmojiLen == <<2, 2, 2, 2, 2, 2, 2, 2, 1, 1, 2>>
SaladWordLen == <<5, 6, 3, 4, 5, 4, 5, 4, 4, 4, 3, 5>>
\* resolution at which a formatted number (fmtPrice, fmtPercent) is kept
AmountSteps == 1000

\* message-pool.js:160-164 one pass of the token-salad loop from state x: the word
\* pushed and x after the pass (two draws when the word is a token, three otherwise);
\* d holds the next three values of x.
SaladPick(d) ==
    IF Below(d[1], 1300) THEN <<<<"tok", Scale(d[2], NTokens)>>, d[2]>>
    ELSE IF Below(d[2], 1100) THEN <<<<"emoji", Scale(d[3], NEmoji)>>, d[3]>>
    ELSE <<<<"word", Scale(d[3], NSaladWords)>>, d[3]>>
SaladWord(x) == SaladPick(Draws(x, 3))
\* message-pool.js:159-165 the token-salad loop: n >= 1 passes from state x; the
\* result is <<words, x after the loop>>.  The passes are chained left to right; the
\* loop is split in halves only to keep the evaluation shallow.
RECURSIVE Salad(_, _)
Salad(x, n) ==
    IF n = 1 THEN LET w == SaladWord(x) IN <<<<w[1]>>, w[2]>>
    ELSE LET left == Salad(x, n \div 2)
             right == Salad(left[2], n - (n \div 2))
         IN <<left[1] \o right[1], right[2]>>

WordLen(w) ==
    IF w[1] = "tok" THEN TokenLen[w[2] + 1]
    ELSE IF w[1] = "emoji" THEN EmojiLen[w[2] + 1]
    ELSE SaladWordLen[w[2] + 1]
RECURSIVE SumLen(_, _, _)
\* the lengths of words a..b of ws added up
SumLen(ws, a, b) ==
    IF a = b THEN WordLen(ws[a])
    ELSE SumLen(ws, a, (a + b) \div 2) + SumLen(ws, ((a + b) \div 2) + 1, b)
\* parts.join(' ').length, for at least one part
JoinedLen(ws) == SumLen(ws, 1, Len(ws)) + (Len(ws) - 1)
\* message-pool.js:197 text.length < 6: every phrase, trade call and question is longer
IsShort(text) == text[1] = "salad" /\ JoinedLen(text[2]) < 6

\* message-pool.js:39-58 the placeholder of phrase k (none for most)
PhraseFill(k, token, tp, stop) ==
    IF k \in {0, 11} THEN <<"token", token>>
    ELSE IF k = 1 THEN <<"stop", stop>>
    ELSE IF k = 2 THEN <<"tp", tp>>
    ELSE Null
\* message-pool.js:170 the placeholders of question q
QuestionFill(q, token, indicator, timeframe) ==
    IF q = 2 THEN <<"indicator", indicator, timeframe>> ELSE <<"token", token>>

\* message-pool.js:178-184 the reply link of message i from the two draws xr, xo:
\* the id named, or Null.
ReplyToDropGuard(i, xr, xo, replyK) ==
    IF Below(xr, replyK)
    THEN <<"msg_", i - (2 + Scale(xo, Min(500, i - 2)))>>
    ELSE Null
ReplyTo(i, xr, xo, replyK) ==
    IF Below(xr, replyK) /\ i > 8
    THEN <<"msg_", i - (2 + Scale(xo, Min(500, i - 2)))>>
    ELSE Null

\* message-pool.js:199-200 the id of the message at index i
MsgId(i) == <<"msg_", i + 1>>

\* message-pool.js:137-173 the text of message i from d, the ten draws after the
\* sender: <<text, x after the last draw of the text>>
TextOf(sender, d) ==
    LET token == Scale(d[1], NTokens)
        indicator == Scale(d[2], NIndicators)
        timeframe == Scale(d[3], NTimeframes)
        order == Scale(d[4], NOrders)
        price == <<token, Scale(d[5], AmountSteps)>>
        tp == <<price, Scale(d[6], AmountSteps)>>
        stop == <<price, Scale(d[7], AmountSteps)>>
        pct == Scale(d[8], AmountSteps)
        x9 == d[9]
        x10 == d[10]
    IN IF Below(x9, 4200)
       THEN <<<<"phrase", Scale(x10, NPhrases),
                PhraseFill(Scale(x10, NPhrases), token, tp, stop)>>, x10>>
       ELSE IF Below(x9, 7200)
       THEN LET salad == Salad(x10, Scale(x10, MaxWords - MinWords) + MinWords)
            IN <<<<"salad", salad[1]>>, salad[2]>>
       ELSE IF Below(x9, 8700)
       THEN <<<<"call", sender, token, order, price, tp, stop, pct>>, x9>>
       ELSE <<<<"question", Scale(x10, NQuestions),
                QuestionFill(Scale(x10, NQuestions), token, indicator, timeframe)>>, x10>>

\* message-pool.js:175-211 the rest of message i from e, the draws after the text:
\* attachment?, [file], reply?, [offset], pinned?, jitter, [emoji]
RestOf(i, replyK, sender, text0, e) ==
    LET hasAttachment == Below(e[1], AttachmentFraction)
        na == IF hasAttachment THEN 2 ELSE 1
        file == Scale(e[na], NAttachTitles)
        xr == e[na + 1]
        no == IF Below(xr, replyK) /\ i > 8 THEN na + 2 ELSE na + 1
    IN [id |-> MsgId(i),
        sender |-> sender,
        text |-> IF IsShort(text0) THEN <<"suffixed", text0, Scale(e[no + 3], NEmoji)>>
                 ELSE text0,
        jitter |-> ScaleHour(e[no + 2]) - 1800000,
        replyTo |-> ReplyTo(i, xr, e[na + 2], replyK),
        pinned |-> Below(e[no + 1], PinnedFraction),
        \* chart.png, screenshot.jpg and indicator.png get a url
        attachment |-> IF hasAttachment THEN <<"file", file, file \in {0, 1, 4}>> ELSE Null]

\* message-pool.js:175-211 the message of index i but for its time, from t = <<text,
\* x after the last draw of the text>>
CoreFrom(i, replyK, sender, t) == RestOf(i, replyK, sender, t[1], Draws(t[2], 7))

\* a placeholder numbered by the index alone
PlaceholderNoUnwrapped(i) == i + 1
\* message-pool.js:133 the number in the name of the placeholder sender of index i
PlaceholderNo(i) == (i % 5000) + 1
\* message-pool.js:122-214 _generateMessageForIndex without the clock: every field but
\* time, plus the jitter of the timestamp.  ppl is SyntheticPeople.people.length
\* (0: none loaded), replyK is opts.replyFraction || meta.replyFraction.
GenCore(i, seedBase, ppl, replyK) ==
    LET x0 == SeedWord(seedBase + i * SeedStride)
        xs == IF ppl > 0 THEN XorShiftStep(x0) ELSE x0
        sender == IF ppl > 0 THEN <<"person", Scale(xs, ppl)>>
                  ELSE <<"member", PlaceholderNo(i)>>
    IN CoreFrom(i, replyK, sender, TextOf(sender, Draws(xs, 10)))

\* message-pool.js:189-195 the timestamp of message i when Date.now() is `clock`
\* milliseconds into day 0: earliest + (i / size) * span + jitter, as <<day, ms of the
\* day>> (a count of milliseconds since 1970 does not fit a 32-bit integer).  The
\* fraction of a millisecond that Math.round settles is dropped.
TimeAt(i, size, spanDays, jitter, clock) ==
    LET sz == Max(1, size)
        whole == (spanDays * i) \div sz
        r == (spanDays * i) % sz
        part == r * (MsPerDay \div sz) + (r * (MsPerDay % sz)) \div sz
        ms == clock + part + jitter
    IN <<(whole - spanDays) + (ms \div MsPerDay), ms % MsPerDay>>

\* message-pool.js:129-134 the sender object: person k of the directory (its fields
\* are the directory's and are not looked into), or the placeholder numbered n
SenderObject(sender) ==
    IF sender[1] = "member"
    THEN [name |-> <<"Member_", sender[2]>>, displayName |-> <<"Member ", sender[2]>>,
          role |-> "VERIFIED", avatar |-> ""]
    ELSE [name |-> <<"name of person", sender[2]>>,
          displayName |-> <<"displayName of person", sender[2]>>,
          role |-> "role of person", avatar |-> "avatar of person"]
\* message-pool.js:199-213 the message object
MakeMsg(core, time) ==
    [id |-> core.id, sender |-> core.sender,
     name |-> SenderObject(core.sender).name,
     displayName |-> SenderObject(core.sender).displayName,
     role |-> SenderObject(core.sender).role,
     avatar |-> SenderObject(core.sender).avatar,
     out |-> FALSE,
     text |-> core.text, time |-> time,
     replyTo |-> core.replyTo, pinned |-> core.pinned, attachment |-> core.attachment]
\* message-pool.js:189-213 the message of options a made of core when Date.now() is clock
Stamped(core, a, clock) == MakeMsg(core, TimeAt(a.i, a.size, a.spanDays, core.jitter, clock))

\* ------------------------------------------------- generator: inputs and table
\* message-pool.js:67 DEFAULT.spanDays, :233 the attempts of the de-duplication loop,
\* :219 the sizes a pool is clamped to
DefaultSpanDays == 730
MaxAttempts == 6
MinPoolSize == 50
MaxPoolSize == 500000

\* the inputs the specifications draw
Seeds == {1, 8}
PeopleCounts == {0, 3}
ReplyFractions == {ReplyFractionDefault, 10000}

\* GenCore with the default reply fraction over the indices and seeds that pools and
\* views use, evaluated once: CoreTab[p][s][i + 1] is
\* GenCore(i, MemoSeed(s), MemoPeople[p], ReplyFractionDefault).
MemoPeople == <<0, 3>>
MemoLow == 2 + MaxAttempts
MemoSeedCount == MemoLow + MaxAttempts + 1
MemoMaxIndex == MinPoolSize + 1 + MaxAttempts
MemoSeed(s) == IF s <= MemoLow THEN s ELSE DefaultSeedBase + (s - MemoLow - 1)
MemoSeedPos(seed) ==
    IF seed \in 1..MemoLow THEN seed
    ELSE IF seed \in DefaultSeedBase..(DefaultSeedBase + MaxAttempts)
         THEN MemoLow + 1 + (seed - DefaultSeedBase)
         ELSE 0
MemoPos(seq, v) == IF \E k \in 1..Len(seq) : seq[k] = v
                   THEN CHOOSE k \in 1..Len(seq) : seq[k] = v
                   ELSE 0
CoreTab ==
    SubSeq([p \in 1..Len(MemoPeople) |->
      SubSeq([s \in 1..MemoSeedCount |->
        SubSeq([k \in 1..(MemoMaxIndex + 1) |->
                  GenCore(k - 1, MemoSeed(s), MemoPeople[p], ReplyFractionDefault)],
               1, MemoMaxIndex + 1)],
        1, MemoSeedCount)],
      1, Len(MemoPeople))
\* GenCore, read from the table where the table has it
Core(i, seedBase, ppl, replyK) ==
    LET p == MemoPos(MemoPeople, ppl)
        s == MemoSeedPos(seedBase)
    IN IF p > 0 /\ s > 0 /\ i \in 0..MemoMaxIndex /\ replyK = ReplyFractionDefault
       THEN CoreTab[p][s][i + 1]
       ELSE GenCore(i, seedBase, ppl, replyK)


\* message-pool.js:122-214 _generateMessageForIndex(i, opts) once the options are
\* resolved against meta: a = [i, seedBase, size, spanDays, replyK]; ppl and clock are
\* what it reads from window.SyntheticPeople and Date.now().
GenerateMessageForIndex(a, ppl, clock) ==
    Stamped(Core(a.i, a.seedBase, ppl, a.replyK), a, clock)

\* ------------------------------------------------- calls of the generator
GenArgSet == [i : (0..MaxIndex) \cup {FarIndex}, seedBase : Seeds, size : {DefaultSize},
              spanDays : {DefaultSpanDays}, replyK : ReplyFractions]

\* time passes between two calls
Tick ==
    /\ now < MaxClock
    /\ now' = now + 1
    /\ UNCHANGED <<engineVars, sideVars, people, genVars, poolVars, viewVars>>

\* a call _generateMessageForIndex(genArgs.i, ...) with the options of genArgs
GenerateAt ==
    /\ genCalls' = SubSeq(genCalls, 1, Min(1, Len(genCalls)))
                        \o <<GenerateMessageForIndex(genArgs, people, now)>>
    /\ UNCHANGED <<engineVars, sideVars, now, people, genArgs, poolVars, viewVars>>

InitEnv(counts) == now = 0 /\ people \in counts
InitGenIdle == genArgs = <<>> /\ genCalls = <<>>
InitGen == genArgs \in GenArgSet /\ genCalls = <<>>
NextGen == GenerateAt \/ Tick
\* calls far into the pool, for pools of one message and more and spans of a day and more
WideArgSet == [i : {0, 4999, 5000, 12345}, seedBase : Seeds, size : {1, 50, DefaultSize},
               spanDays : {1, DefaultSpanDays}, replyK : ReplyFractions]
InitGenWide == genArgs \in WideArgSet /\ genCalls = <<>>

\* ------------------------------------------------- generatePool and accessors
LruCap == 2048
\* message-pool.js:102-114 makeLRU: the keys it holds, oldest first
LruHas(lru, k) == \E j \in 1..Len(lru) : lru[j] = k
LruPush(lru, k) ==
    IF LruHas(lru, k) THEN lru
    ELSE LET l == Append(lru, k)
         IN IF Len(l) > LruCap THEN SubSeq(l, Len(l) - LruCap + 1, Len(l)) ELSE l
\* message-pool.js:92-99 contentHash.  A text is kept by its structure, not as a string,
\* so its hash is kept as the text: equal texts have equal hashes, and the collision of
\* two different texts is left out.
ContentHash(text) == text

\* message-pool.js:235-236 the regenerated text put on message m
ReplacedByAlt(m, alt, suffix) == [alt EXCEPT !.text = <<"alt", alt.text, suffix>>]
Replaced(m, alt, suffix) == [m EXCEPT !.text = <<"alt", alt.text, suffix>>]

\* message-pool.js:233-239 the while loop of index i, entered with message m after
\* `attempts` passes: <<m, attempts>> at its exit.  o = [size, seedBase, spanDays, replyK].
RECURSIVE Dedupe(_, _, _, _, _, _, _)
Dedupe(m, attempts, i, o, ppl, clock, lru) ==
    IF LruHas(lru, ContentHash(m.text)) /\ attempts < MaxAttempts
    THEN LET alt == GenerateMessageForIndex(
                        [i |-> i + attempts + 1, seedBase |-> o.seedBase + attempts + 1,
                         size |-> o.size, spanDays |-> o.spanDays, replyK |-> o.replyK],
                        ppl, clock)
             suffix == IF attempts % 2 = 0
                       THEN <<Scale(XorShiftStep(SeedWord(o.seedBase + attempts + i)), NEmoji)>>
                       ELSE <<>>
         IN Dedupe(Replaced(m, alt, suffix), attempts + 1, i, o, ppl, clock, lru)
    ELSE <<m, attempts>>

\* message-pool.js:230-242 one pass of the for loop: the message stored at index i and
\* the recency list after it
\* message-pool.js:240-241 lru.push(h); arr[i] = m
Stored(m, lru) == [arr |-> <<m>>, lru |-> LruPush(lru, ContentHash(m.text))]
PoolPass(i, o, ppl, clock, lru) ==
    Stored(Dedupe(GenerateMessageForIndex(
                      [i |-> i, seedBase |-> o.seedBase, size |-> o.size,
                       spanDays |-> o.spanDays, replyK |-> o.replyK], ppl, clock),
                  0, i, o, ppl, clock, lru)[1],
           lru)

\* message-pool.js:230-242 the passes lo..hi in order, from recency list lru (split in
\* halves to keep the evaluation shallow)
RECURSIVE PoolRange(_, _, _, _, _, _)
PoolRange(lo, hi, o, ppl, clock, lru) ==
    IF lo = hi THEN PoolPass(lo, o, ppl, clock, lru)
    ELSE LET mid == (lo + hi) \div 2
             left == PoolRange(lo, mid, o, ppl, clock, lru)
             right == PoolRange(mid + 1, hi, o, ppl, clock, left.lru)
         IN [arr |-> left.arr \o right.arr, lru |-> right.lru]

\* ------------------------------------------ generatePool, by the hashes
\* The run of generatePool as the recency list sees it: each text the generator hands
\* out is known by its hash alone, a number; a hash not seen before is the next number
\* unused.
MaxOver == 2
\* the passes of one run that may keep a text still held by the list
MaxDegraded == 2
\* the sizes of the pools run: the least, and one that overfills the recency list
RunSizes == {MinPoolSize, LruCap + MaxOver}
\* the number of texts of a pass, in the order generated, that are held by the list
Collisions == {0, 2, MaxAttempts, MaxAttempts + 1}

\* the hashes of the texts of one pass: the text of the message, then those of the
\* MaxAttempts regenerations and of one more, which the loop never asks for; the
\* first c are the oldest hash held, the others new
Candidates(c, held, fresh) ==
    [k \in 1..(MaxAttempts + 2) |-> IF k <= c THEN held ELSE fresh + (k - c - 1)]

\* a loop that gives up after the first regeneration
DedupeLoopOnce(cands, attempts, lru) ==
    IF LruHas(lru, cands[attempts + 1]) /\ attempts < 1 THEN attempts + 1 ELSE attempts
\* a loop that regenerates for as long as the text is held
RECURSIVE DedupeLoopUnbounded(_, _, _)
DedupeLoopUnbounded(cands, attempts, lru) ==
    IF LruHas(lru, cands[attempts + 1]) /\ attempts <= MaxAttempts
    THEN DedupeLoopUnbounded(cands, attempts + 1, lru)
    ELSE attempts
\* message-pool.js:232-239 the while loop over the hashes cands, entered after
\* `attempts` passes: the attempts at its exit; the text kept has hash cands[attempts + 1]
RECURSIVE DedupeLoop(_, _, _)
DedupeLoop(cands, attempts, lru) ==
    IF LruHas(lru, cands[attempts + 1]) /\ attempts < MaxAttempts
    THEN DedupeLoop(cands, attempts + 1, lru)
    ELSE attempts

\* message-pool.js:217-227 generatePool({size}) up to the loop
StartRun(size) ==
    /\ dedupe.ret # Null \/ dedupe.size = 0
    /\ dedupe' = [size |-> clamp(size, MinPoolSize, MaxPoolSize), i |-> 0, lru |-> <<>>,
                  fresh |-> 0, attempts |-> 0, held |-> FALSE, dropped |-> FALSE,
                  ret |-> Null]
    /\ UNCHANGED notDedupe
\* message-pool.js:230-242 the pass of index dedupe.i, the first c texts of which are
\* held by the list
RunPass(c) ==
    /\ dedupe.ret = Null /\ dedupe.i < dedupe.size
    /\ c > 0 => dedupe.lru # <<>>
    /\ c > MaxAttempts => dedupe.i - dedupe.fresh < MaxDegraded
    /\ LET cands == Candidates(c, IF dedupe.lru = <<>> THEN 0 ELSE dedupe.lru[1], dedupe.fresh)
           attempts == DedupeLoop(cands, 0, dedupe.lru)
           h == cands[attempts + 1]
           lru1 == LruPush(dedupe.lru, h)
       IN dedupe' = [dedupe EXCEPT !.i = dedupe.i + 1, !.lru = lru1,
                        !.fresh = dedupe.fresh + Max(0, attempts + 1 - c),
                        !.attempts = attempts, !.held = LruHas(dedupe.lru, h),
                        !.dropped = dedupe.dropped
                                    \/ (dedupe.lru # <<>> /\ ~LruHas(lru1, dedupe.lru[1]))]
    /\ UNCHANGED notDedupe
\* message-pool.js:244-247 the array of the passes made is stored and returned
RunReturn ==
    /\ dedupe.ret = Null /\ dedupe.i = dedupe.size /\ dedupe.size > 0
    /\ dedupe' = [dedupe EXCEPT !.ret = <<dedupe.i>>]
    /\ UNCHANGED notDedupe

InitDedupeIdle ==
    dedupe = [size |-> 0, i |-> 0, lru |-> <<>>, fresh |-> 0, attempts |-> 0,
              held |-> FALSE, dropped |-> FALSE, ret |-> Null]
StartRunStep == \E size \in RunSizes \cup {20} : StartRun(size)
RunPassStep == \E c \in Collisions : RunPass(c)
NextDedupe == StartRunStep \/ RunPassStep \/ RunReturn

\* the options generatePool is called with: 0 stands for an option left out
PoolSizesAsked == {20, MaxPool}
PoolSeedsAsked == {0, 1}
GetIndices == (0 - 1)..(MaxPool + 1)

\* the replyFraction options generatePool is called with (in 1/10000)
PoolReplyAsked == {0, 10000}

\* message-pool.js:217-248 generatePool({size: optSize, seedBase: optSeed, replyFraction:
\* optReplyK}); line 231 hands this.meta.replyFraction to the generator, whatever
\* opts.replyFraction is.
GeneratePool(optSize, optSeed, optReplyK) ==
    LET size == clamp(Or(optSize, Or(meta.size, DefaultSize)), MinPoolSize, MaxPoolSize)
        seedBase == Or(optSeed, Or(meta.seedBase, DefaultSeedBase))
        spanDays == Or(meta.spanDays, DefaultSpanDays)
        o == [size |-> size, seedBase |-> seedBase, spanDays |-> spanDays,
              replyK |-> meta.replyFraction]
    IN /\ size <= MaxPool
       /\ meta' = [meta EXCEPT !.size = size, !.seedBase = seedBase, !.spanDays = spanDays]
       /\ messages' = PoolRange(0, size - 1, o, people, now, <<>>).arr
       /\ poolAsked' = [size |-> optSize, seedBase |-> optSeed, replyK |-> optReplyK]
       /\ poolRet' = <<>>
       /\ UNCHANGED <<engineVars, sideVars, now, people, genVars, viewVars>>

\* message-pool.js:264 getMessageByIndex(i)
GetMessageByIndex(i) ==
    /\ poolRet' = <<[i |-> i, size |-> Len(messages),
                     m |-> IF Len(messages) = 0 THEN <<>>
                           ELSE IF i < 0 \/ i >= Len(messages) THEN <<>>
                           ELSE <<messages[i + 1]>>]>>
    /\ UNCHANGED <<engineVars, sideVars, now, people, genVars, meta, messages, poolAsked, viewVars>>

\* message-pool.js:118-119 the module as loaded
InitPool ==
    /\ meta = [size |-> DefaultSize, seedBase |-> DefaultSeedBase, spanDays |-> DefaultSpanDays,
               replyFraction |-> ReplyFractionDefault]
    /\ messages = <<>>
    /\ poolAsked = [size |-> 0, seedBase |-> 0, replyK |-> 0]
    /\ poolRet = <<>>
\* the module after generatePool({size: MaxPool}) on the module as loaded
InitPoolLoaded ==
    /\ meta = [size |-> MaxPool, seedBase |-> DefaultSeedBase, spanDays |-> DefaultSpanDays,
               replyFraction |-> ReplyFractionDefault]
    /\ messages = PoolRange(0, MaxPool - 1,
                            [size |-> MaxPool, seedBase |-> DefaultSeedBase,
                             spanDays |-> DefaultSpanDays, replyK |-> ReplyFractionDefault],
                            people, now, <<>>).arr
    /\ poolAsked = [size |-> MaxPool, seedBase |-> 0, replyK |-> 0]
    /\ poolRet = <<>>
GeneratePoolStep == \E optSize \in PoolSizesAsked : \E optSeed \in PoolSeedsAsked :
                        \E optReplyK \in PoolReplyAsked : GeneratePool(optSize, optSeed, optReplyK)
GetMessageByIndexStep == \E i \in GetIndices : GetMessageByIndex(i)
NextPool == GeneratePoolStep \/ GetMessageByIndexStep \/ Tick

\* ------------------------------------------------- createGeneratorView
DefaultPageSize == 200
DefaultCachePages == 12
MinCachePages == 3

\* message-pool.js:323-330 the constants of a view made by createGeneratorView(opts);
\* a negative optSeed stands for opts.seedBase left out, 0 for another option left out
\* and totalSize 0 for null.  cachePages keeps opts.cachePages as it was given.
CreateGeneratorView(optPageSize, optSeed, optCachePages, optWrap) ==
    [pageSize |-> Max(1, Or(optPageSize, DefaultPageSize)),
     cachePages |-> optCachePages,
     seedBase |-> IF optSeed >= 0 THEN optSeed ELSE Or(meta.seedBase, DefaultSeedBase),
     spanDays |-> Or(meta.spanDays, DefaultSpanDays),
     cachePagesMax |-> Max(MinCachePages, Or(optCachePages, DefaultCachePages)),
     allowWrap |-> optWrap,
     totalSize |-> IF Len(messages) > 0 THEN Len(messages) ELSE meta.size]

\* A pushCache that drops nothing.
PushCacheKeepsAll(c, key, page) ==
    IF key \in DOMAIN c.cache THEN c
    ELSE [cache |-> (key :> page) @@ c.cache, order |-> Append(c.order, key)]
\* message-pool.js:335-340 pushCache on c = [cache, order]
PushCache(c, key, page) ==
    IF key \in DOMAIN c.cache THEN c
    ELSE LET order == Append(c.order, key)
             n == Len(order) - viewOpts.cachePagesMax
             cache == (key :> page) @@ c.cache
         IN IF n > 0
            THEN [cache |-> [k \in DOMAIN cache \ {order[j] : j \in 1..n} |-> cache[k]],
                  order |-> SubSeq(order, n + 1, Len(order))]
            ELSE [cache |-> cache, order |-> order]
\* a touchCache that leaves the order as it is
TouchCacheKeepsOrder(order, key) == order
\* message-pool.js:341-344 touchCache
TouchCache(order, key) ==
    IF \E j \in 1..Len(order) : order[j] = key
    THEN LET i == CHOOSE j \in 1..Len(order) :
                      order[j] = key /\ \A h \in 1..(j - 1) : order[h] # key
         IN SubSeq(order, 1, i - 1) \o SubSeq(order, i + 1, Len(order)) \o <<key>>
    ELSE order

\* message-pool.js:348-357 genMessageAt(index) at clock: <<m>>, or <<>> for null
GenMessageAt(index, clock) ==
    LET total == viewOpts.totalSize
        beyond == total # 0 /\ index >= total
        ix == IF beyond /\ viewOpts.allowWrap THEN index % total ELSE index
    IN IF beyond /\ ~viewOpts.allowWrap THEN <<>>
       ELSE IF Len(messages) > 0 /\ ix < Len(messages) THEN <<messages[ix + 1]>>
       ELSE <<GenerateMessageForIndex(
                  [i |-> ix, seedBase |-> viewOpts.seedBase,
                   size |-> Or(total, Or(meta.size, DefaultSize)),
                   spanDays |-> viewOpts.spanDays, replyK |-> meta.replyFraction],
                  people, clock)>>

\* a page sliced from the generated array where there is one, never wrapping
MakePageSliced(start, clock) ==
    LET ixs == MakePageIndices(start, viewOpts.pageSize, viewOpts.totalSize,
                               viewOpts.allowWrap)
    IN IF Len(messages) > 0
       THEN SubSeq(messages, start + 1, Min(start + viewOpts.pageSize, Len(messages)))
       ELSE [k \in 1..Len(ixs) |-> GenMessageAt(ixs[k], clock)[1]]
\* message-pool.js:359-379 makePage(start) at clock
MakePage(start, clock) ==
    LET ixs == MakePageIndices(start, viewOpts.pageSize, viewOpts.totalSize,
                               viewOpts.allowWrap)
    IN [k \in 1..Len(ixs) |-> GenMessageAt(ixs[k], clock)[1]]

\* a page key that keeps the offset asked for
PageStartAsAsked(index) == index
\* message-pool.js:385, 392 Math.floor(index / pageSize) * pageSize
PageStart(index) == (index \div viewOpts.pageSize) * viewOpts.pageSize

\* message-pool.js:390-395 nextPage(startIndex) on c = [cache, order]: the cache after
\* the call and the page returned
\* message-pool.js:394 a miss: the page made is pushed and returned
Cached(c2, page) == [cache |-> c2.cache, order |-> c2.order, page |-> page]
PushedPage(c, key, page) == Cached(PushCache(c, key, page), page)
NextPageOn(c, startIndex, clock) ==
    LET key == PageStart(startIndex)
    IN IF key \in DOMAIN c.cache
       THEN [cache |-> c.cache, order |-> TouchCache(c.order, key), page |-> c.cache[key]]
       ELSE PushedPage(c, key, MakePage(key, clock))

\* message-pool.js:396-402 prefetch(startIndex, pages): the passes p..pages-1 of its loop;
\* the cache after them and <<page key, page returned>> of each pass
RECURSIVE PrefetchOn(_, _, _, _, _)
\* the passes after pass p, whose nextPage gave r
PrefetchAfter(r, startIndex, p, pages, clock) ==
    LET rest == PrefetchOn([cache |-> r.cache, order |-> r.order], startIndex, p + 1,
                           pages, clock)
    IN [cache |-> rest.cache, order |-> rest.order,
        results |-> <<<<PageStart(startIndex + p * viewOpts.pageSize), r.page>>>>
                    \o rest.results]
PrefetchOn(c, startIndex, p, pages, clock) ==
    IF p >= pages THEN [cache |-> c.cache, order |-> c.order, results |-> <<>>]
    ELSE PrefetchAfter(NextPageOn(c, startIndex + p * viewOpts.pageSize, clock),
                       startIndex, p, pages, clock)

\* what a returned page says about index watch: <<x>> when the page has a slot for it
\* (x as genMessageAt returns it), <<>> when it has none
SeenInPage(key, page) ==
    IF watch >= key /\ watch - key < Len(page) THEN <<<<page[watch - key + 1]>>>> ELSE <<>>
RECURSIVE SeenInPages(_)
SeenInPages(results) ==
    IF results = <<>> THEN <<>>
    ELSE SeenInPage(results[1][1], results[1][2]) \o SeenInPages(Tail(results))
\* firstSeen and lastSeen after a call whose answers for index watch were seen, in order
Observe(seen) ==
    /\ firstSeen' = IF Len(firstSeen) = 0 /\ Len(seen) > 0 THEN <<seen[1]>> ELSE firstSeen
    /\ lastSeen' = IF Len(seen) > 0 THEN <<seen[Len(seen)]>> ELSE lastSeen

\* the uses of the cached pages, written down beside the view: key is used
UseKey(order, key) == SelectSeq(order, LAMBDA k : k # key) \o <<key>>
RECURSIVE UseKeys(_, _)
UseKeys(order, keys) ==
    IF keys = <<>> THEN order ELSE UseKeys(UseKey(order, Head(keys)), Tail(keys))
\* cacheUse after a call that used the pages `keys`, in this order
Used(keys) == UseKeys(SelectSeq(cacheUse, LAMBDA k : k \in DOMAIN pageCache), keys)

\* message-pool.js:386 page[index - pageStart] || null
Slot(page, j) == IF j < Len(page) THEN <<page[j + 1]>> ELSE <<>>
\* message-pool.js:384-389 what view.get(index) returns: <<m>>, or <<>> for null
GetRet(index) ==
    IF PageStart(index) \in DOMAIN pageCache
    THEN Slot(pageCache[PageStart(index)], index - PageStart(index))
    ELSE GenMessageAt(index, now)
\* message-pool.js:384-389 view.get(index)
Get(index) ==
    LET key == PageStart(index)
        hit == key \in DOMAIN pageCache
    IN /\ pageOrder' = IF hit THEN TouchCache(pageOrder, key) ELSE pageOrder
       /\ Observe(IF index = watch THEN <<GetRet(index)>> ELSE <<>>)
       /\ UNCHANGED <<engineVars, sideVars, now, people, genVars, poolVars, viewOpts, pageCache, watch>>
       /\ cacheUse' = Used(IF hit THEN <<key>> ELSE <<>>)

\* message-pool.js:390-395 view.nextPage(startIndex)
NextPage(startIndex) ==
    LET r == NextPageOn([cache |-> pageCache, order |-> pageOrder], startIndex, now)
    IN /\ pageCache' = r.cache
       /\ pageOrder' = r.order
       /\ Observe(SeenInPage(PageStart(startIndex), r.page))
       /\ UNCHANGED <<engineVars, sideVars, now, people, genVars, poolVars, viewOpts, watch>>
       /\ cacheUse' = Used(<<PageStart(startIndex)>>)

\* message-pool.js:396-402 view.prefetch(startIndex, pages)
Prefetch(startIndex, pages) ==
    LET r == PrefetchOn([cache |-> pageCache, order |-> pageOrder], startIndex, 0,
                        Max(1, pages), now)
    IN /\ pageCache' = r.cache
       /\ pageOrder' = r.order
       /\ Observe(SeenInPages(r.results))
       /\ UNCHANGED <<engineVars, sideVars, now, people, genVars, poolVars, viewOpts, watch>>
       /\ cacheUse' = Used([p \in 1..Len(r.results) |-> r.results[p][1]])

\* message-pool.js:403 view.clearCache()
ClearCache ==
    /\ pageCache' = <<>>
    /\ pageOrder' = <<>>
    /\ cacheUse' = <<>>
    /\ UNCHANGED <<engineVars, sideVars, now, people, genVars, poolVars, viewOpts, watch, firstSeen,
                   lastSeen>>

\* the indices asked of the view: the first pages, the last index of a generated pool and
\* the first index beyond the size of the module as loaded; the indices followed: the
\* second slot of the first page and that first index beyond
ViewIndices == (0..MaxViewIndex) \cup {MaxPool - 1, DefaultSize}
WatchIndices == {1, DefaultSize}
InitViewIdle ==
    /\ viewOpts = <<>>
    /\ pageCache = <<>>
    /\ pageOrder = <<>>
    /\ watch = 0
    /\ firstSeen = <<>>
    /\ lastSeen = <<>>
    /\ cacheUse = <<>>
InitView ==
    /\ viewOpts \in {CreateGeneratorView(PageSize, 1, 1, w) : w \in BOOLEAN}
    /\ pageCache = <<>>
    /\ pageOrder = <<>>
    /\ watch \in WatchIndices
    /\ firstSeen = <<>>
    /\ lastSeen = <<>>
    /\ cacheUse = <<>>
\* the cachePages options asked of the views whose cache is followed
CachePagesAsked == {0, 1}
InitViewCaches ==
    /\ viewOpts \in {CreateGeneratorView(PageSize, 1, c, FALSE) : c \in CachePagesAsked}
    /\ pageCache = <<>>
    /\ pageOrder = <<>>
    /\ watch = 1
    /\ firstSeen = <<>>
    /\ lastSeen = <<>>
    /\ cacheUse = <<>>
GetStep == \E index \in ViewIndices : Get(index)
NextPageStep == \E startIndex \in ViewIndices : NextPage(startIndex)
PrefetchStep == \E startIndex \in ViewIndices : \E pages \in 1..MaxPrefetch :
                    Prefetch(startIndex, pages)
NextView == GetStep \/ NextPageStep \/ PrefetchStep \/ ClearCache \/ Tick
\* the calls of a view at one time
NextCache == GetStep \/ NextPageStep \/ PrefetchStep \/ ClearCache

\* ------------------------------------------------------- scheduler claims
\* Emitters: the loop timers and stream intervals that can still hand out messages.
Emitters == loopTimers \cup streamLive
AnyStart == StartMethod \/ StartDetached
\* Idle: nothing flagged, nothing held.
Idle == ~running /\ mainTimer = 0 /\ currentStreamer = 0

\* C1: the scheduler follows Idle -> Running -> Idle: a start() from Idle with a pool
\* view available makes isRunning() true, it stays true until stop() or the end of
\* the pool (emitNext stopping itself), and stop() makes it false.
C1_IdleRunningIdle ==
    /\ [][AnyStart /\ ~running /\ pool # "none" => running']_vars
    /\ [][running /\ ~running' => Stop \/ EmitNextStep]_vars
    /\ [][Stop => ~running']_vars

\* C2: at most one loop timer or stream handle is emitting in every reachable state,
\* and a start() made while one is emitting stops it and begins exactly one new run.
AtMostOneEmitter == Cardinality(Emitters) <= 1
C2_OneActiveRun ==
    /\ []AtMostOneEmitter
    /\ [][AnyStart /\ Emitters # {} =>
            Emitters' \cap Emitters = {} /\ Cardinality(Emitters') = 1]_vars

\* C3: once stop() has returned, nothing reaches the render sink before the next
\* start() or triggerOnce().
C3_SilentAfterStop == [][stops > 0 /\ stops' > 0 => rendered' = rendered]_vars

\* C4: stop() leaves the cursor alone, and the first message of the run begun by the
\* next start() is the one after the last message emitted by the stopped run.
ResumesAfterLast ==
    LET n == Len(emitted)
    IN (/\ n >= 2
        /\ emitted[n].kind # "once" /\ emitted[n - 1].kind # "once"
        /\ emitted[n].run # emitted[n - 1].run
        /\ emitted[n - 1].run \notin Emitters
        /\ emitted[n - 1].m + 1 < PoolSize)
       => emitted[n].m = emitted[n - 1].m + 1
C4_ResumeFromCursor ==
    /\ [][Stop => pageIdx' = pageIdx]_vars
    /\ []ResumesAfterLast

\* C5: stop() is idempotent: a stop() after a stop(), or on an Idle scheduler, changes
\* neither the running flag, the loop timer, the stream handle nor the cursor.
C5_StopIdempotent ==
    [][Stop /\ (stops > 0 \/ Idle) =>
         UNCHANGED <<running, mainTimer, currentStreamer, pageIdx, loopTimers, streamLive>>]_vars
\* a second stop() after a run that had emitted and was stopped
C5_Witness == stops = 2 /\ nextId > 1 /\ Len(emitted) > 0

\* C6: within one manual-mode run whose indices have not wrapped, messages reach the
\* render sink in non-decreasing index order.
NoWrap(r) ==
    \A i, j \in 1..Len(emitted) :
        (i < j /\ emitted[i].run = r /\ emitted[j].run = r) => emitted[i].m < emitted[j].m
C6_RenderInIndexOrder ==
    \A a, b \in 1..Len(rendered) :
        LET x == emitted[rendered[a]]
            y == emitted[rendered[b]]
        IN (a < b /\ x.kind = "manual" /\ y.kind = "manual" /\ x.run = y.run /\ NoWrap(x.run))
           => x.m <= y.m

\* ------------------------------------------------------- generator claims
\* C7: message generation is pure: any two calls of the single-index generator with the
\* same (index, seed, size, spanDays) return messages equal in every field (id, sender,
\* text, timestamp, replyTo, pinned, attachment).
C7_GenerationIsPure == \A a, b \in 1..Len(genCalls) : genCalls[a] = genCalls[b]

\* C8: page determinism survives cache churn: every call of get, nextPage or prefetch
\* that covers an index returns for it the message that the first such call returned,
\* whatever was cached, evicted or cleared in between.
C8_SameMessageAsFirst == Len(firstSeen) > 0 => lastSeen = firstSeen

\* C9: reply validity: the replyTo of a generated message at index i, when set, is the
\* id of the message at an index j with 0 <= j < i.
C9_ReplyNamesEarlierMessage ==
    \A c \in 1..Len(genCalls) :
        genCalls[c].replyTo # Null =>
            \E j \in 0..(genArgs.i - 1) : genCalls[c].replyTo = <<"msg_", j + 1>>
\* a reply at an index above 8 that names the very first message
C9_Witness ==
    /\ Len(genCalls) > 0
    /\ genArgs.i > 8
    /\ genCalls[1].replyTo = <<"msg_", 1>>

\* C10: in a pool returned by generatePool the message at index i has id "msg_" + (i+1)
\* and the ids are pairwise distinct, also where de-duplication replaced the text;
\* getMessageByIndex(i) returns that message for 0 <= i < size and null outside.
C10_PoolIds ==
    /\ \A i \in 0..(Len(messages) - 1) : messages[i + 1].id = <<"msg_", i + 1>>
    /\ \A i, j \in 1..Len(messages) : i # j => messages[i].id # messages[j].id
    /\ \A c \in 1..Len(poolRet) :
          IF poolRet[c].i >= 0 /\ poolRet[c].i < poolRet[c].size
          THEN /\ Len(poolRet[c].m) = 1
               /\ poolRet[c].m[1].id = <<"msg_", poolRet[c].i + 1>>
          ELSE poolRet[c].m = <<>>
\* getMessageByIndex handed out a message whose text de-duplication replaced
C10_Witness ==
    /\ Len(poolRet) = 1
    /\ Len(poolRet[1].m) = 1
    /\ poolRet[1].m[1].text[1] = "alt"
    /\ poolRet[1].m[1].id = <<"msg_", poolRet[1].i + 1>>

\* C11: generatePool honours the replyFraction option: after a generatePool asked with
\* replyFraction 1.0, every message of the pool at an index above 8 has a replyTo, and
\* it names a message at a smaller index.
C11_ReplyFractionHonoured ==
    poolAsked.replyK = 10000 =>
        \A i \in 9..(Len(messages) - 1) :
            /\ messages[i + 1].replyTo # Null
            /\ \E j \in 0..(i - 1) : messages[i + 1].replyTo = <<"msg_", j + 1>>

\* C12: the wrap boundary of the view, totalSize T known.  With allowWrap, get(T + k)
\* returns the same message as get(k), cached page or not; without allowWrap, get(i)
\* returns null for every i >= T.
WrapOffsets == 0..MaxViewIndex
Timeless(r) == IF r = <<>> THEN r ELSE <<[r[1] EXCEPT !.time = <<0, 0>>]>>
WrapBoundaryButTime ==
    (viewOpts # <<>> /\ viewOpts.totalSize # 0) =>
        \A k \in WrapOffsets :
            IF viewOpts.allowWrap
            THEN Timeless(GetRet(viewOpts.totalSize + k)) = Timeless(GetRet(k))
            ELSE GetRet(viewOpts.totalSize + k) = <<>>

\* what nextPage(startIndex) returns in the current state
PageReturned(startIndex) ==
    NextPageOn([cache |-> pageCache, order |-> pageOrder], startIndex, now).page
\* the page boundary at or below startIndex
Aligned(startIndex) == (startIndex \div viewOpts.pageSize) * viewOpts.pageSize
\* the index that slot j (from 1) of the page of startIndex stands for
SlotIndex(startIndex, j) ==
    IF viewOpts.totalSize # 0 THEN (Aligned(startIndex) + j - 1) % viewOpts.totalSize
    ELSE Aligned(startIndex) + j - 1
\* C13 as claimed: nextPage(startIndex) returns the messages of the page that starts at
\* floor(startIndex / pageSize) * pageSize, in index order, and exactly pageSize of them.
C13_FullAlignedPage ==
    viewOpts # <<>> =>
        \A s \in ViewIndices :
            /\ Len(PageReturned(s)) = viewOpts.pageSize
            /\ \A j \in 1..Len(PageReturned(s)) :
                   PageReturned(s)[j].id = <<"msg_", SlotIndex(s, j) + 1>>
\* C13 amended: the page is aligned and in slot order, indices taken modulo totalSize
\* when the view wraps; it has pageSize messages, but without allowWrap it ends at
\* totalSize (and is empty from totalSize on).
PageLength(startIndex) ==
    IF viewOpts.allowWrap \/ viewOpts.totalSize = 0 THEN viewOpts.pageSize
    ELSE Max(0, Min(viewOpts.pageSize, viewOpts.totalSize - Aligned(startIndex)))
C13_AlignedPage ==
    viewOpts # <<>> =>
        \A s \in ViewIndices :
            /\ Len(PageReturned(s)) = PageLength(s)
            /\ \A j \in 1..Len(PageReturned(s)) :
                   PageReturned(s)[j].id = <<"msg_", SlotIndex(s, j) + 1>>
\* a view without wrap over a generated pool has cached its last, shorter page and the
\* empty page beyond it
C13_Witness ==
    /\ viewOpts # <<>> /\ ~viewOpts.allowWrap /\ Len(messages) = MaxPool
    /\ {Aligned(MaxPool - 1), Aligned(DefaultSize)} \subseteq DOMAIN pageCache
    /\ Len(pageCache[Aligned(MaxPool - 1)]) = PageLength(MaxPool - 1)
    /\ pageCache[Aligned(DefaultSize)] = <<>>

\* C14: the page cache evicts in least-recently-used order.  The pages in the cache are
\* kept in the order of their last use (insertion, or hit by get or nextPage), a hit
\* making the page the most recently used one, and the pages a call dropped from the
\* cache were all last used before every page it kept.
StillCached == SelectSeq(cacheUse, LAMBDA k : k \in DOMAIN pageCache)
Dropped == SelectSeq(cacheUse, LAMBDA k : k \notin DOMAIN pageCache)
C14_EvictsLeastRecentlyUsed ==
    /\ pageOrder = StillCached
    /\ cacheUse = Dropped \o StillCached
\* the cache is full and the last call dropped a page from it, while a page with a lower
\* key stays in it
C14_Witness ==
    /\ Len(pageOrder) = viewOpts.cachePagesMax
    /\ Dropped # <<>>
    /\ \E k \in DOMAIN pageCache : k < Dropped[1]

\* C15: every delay scheduled between two iterations of the manual loop is at least
\* 20 ms, and whenever baseInterval * (1 - J) >= 20 it lies within
\* [baseInterval * (1 - J), baseInterval * (1 + J)], baseInterval being
\* round(60000 / ratePerMin) and J the jitter fraction.
C15_DelayWithinJitter ==
    sched.delay # NoDelay =>
        /\ sched.delay >= 20
        /\ sched.base * (100 - sched.usedK) >= 20 * 100 =>
              /\ sched.delay * 100 >= sched.base * (100 - sched.usedK)
              /\ sched.delay * 100 <= sched.base * (100 + sched.usedK)
\* a delay was drawn at the lowest jitter and kept at the floor of 20 ms
C15_Witness ==
    /\ sched.delay = 20
    /\ sched.draw = 0
    /\ sched.usedK = 100
    /\ sched.base + Jitter(sched.base, sched.usedK, 0) < 20

\* the emission whose render has just thrown, when it was rendered on emission
FailedNow == emitted'[Len(emitted')]
\* C16: a render sink that throws for one message does not abort playback: the
\* exception reaches neither the caller nor the event loop, the scheduler stays
\* Running, and the next loop iteration is still scheduled, on the following message.
C16_SinkFailureKeepsPlayback ==
    /\ []~escaped
    /\ [][failed' # failed =>
            /\ running' = running
            /\ streamLive' = streamLive
            /\ emitted' = emitted => loopTimers' = loopTimers
            /\ (emitted' # emitted /\ FailedNow.kind = "manual") =>
                  /\ running'
                  /\ FailedNow.run \in loopTimers'
                  /\ mainTimer' = FailedNow.run
                  /\ pageIdx' % ViewTotalSize = FailedNow.m
                  /\ loop'[FailedNow.run].start + loop'[FailedNow.run].idx = pageIdx' + 1
            /\ (emitted' # emitted /\ FailedNow.kind = "stream") =>
                  /\ FailedNow.run \in streamLive'
                  /\ pageIdx' = FailedNow.m + 1
                  /\ streamIdx'[FailedNow.run] # FailedNow.m]_vars
\* the sink threw for a message of the manual loop, which is still running and has
\* emitted the following message since
C16_Witness ==
    /\ running
    /\ \E n \in failed : \E n2 \in (n + 1)..Len(emitted) :
          /\ emitted[n].kind = "manual"
          /\ emitted[n2].run = emitted[n].run
          /\ emitted[n2].m = emitted[n].m + 1
          /\ emitted[n].run \in loopTimers

\* C17: when no pool view can be built (no MessagePool is available), start() leaves
\* the scheduler Idle: isRunning() is false afterwards, no timer is pending and no
\* message is ever emitted.
C17_NoPoolStaysIdle ==
    pool = "none" =>
        /\ ~running
        /\ mainTimer = 0 /\ loopTimers = {}
        /\ currentStreamer = 0 /\ streamLive = {}
        /\ emitted = <<>> /\ pending = {} /\ rendered = <<>>
\* start() was called with no MessagePool loaded
C17_Witness == pool = "none" /\ started

\* the emission a step has added
Added == emitted'[Len(emitted')]
\* the positions of emitted made by triggerOnce()
OncePositions == {n \in 1..Len(emitted) : emitted[n].kind = "once"}
\* how many times position n reached the sink
TimesRendered(n) == Cardinality({k \in 1..Len(rendered) : rendered[k] = n})
C19_RetriggerReplacesTimer ==
    /\ Cardinality(typingTimers) <= 1
    /\ \A t \in typingTimers : t.id = typing.clearTimer
    /\ (typing.cleared = "timer" /\ ~typing.active /\ typing.asked # Null) =>
           typing.elapsed >= typing.asked[1]
\* the signal was triggered again while active, 100 ms or more after the first trigger,
\* and the timer of the second trigger has cleared it
C19_Witness ==
    /\ typing.triggers = 2
    /\ typing.cleared = "timer" /\ ~typing.active
    /\ typing.asked = <<500>> /\ typing.elapsed = 500
    /\ typingTimers = {}

\* the latest trigger gave a duration and neither a trigger nor clear() came since
ExplicitTrigger == typing.asked # Null /\ typing.cleared # "clear"
\* the signal of the latest trigger was taken down by its timer
TimerCleared == ~typing.active /\ typing.cleared = "timer"
\* a trigger is followed by a clear, unless a later trigger takes it over
TriggerThenClear ==
    \A k \in 1..MaxTriggers :
        (typing.active /\ typing.triggers = k) ~> (~typing.active \/ typing.triggers > k)
\* C20: after triggerTyping(names, durationMs) with an explicit duration and no later
\* trigger or clear, isActive() is true for durationMs and becomes false when
\* durationMs have elapsed, at which point the typing sink is called with an empty
\* sequence; every trigger is therefore eventually followed by a clear.
C20_ActiveForDuration ==
    /\ [](ExplicitTrigger =>
            /\ typing.active => typing.elapsed <= typing.asked[1]
            /\ typing.elapsed < typing.asked[1] => typing.active
            /\ TimerCleared => typing.elapsed = typing.asked[1] /\ typing.shown = "empty")
    /\ TriggerThenClear
\* the time the signal of the latest trigger lasts
Lasting == Max(typing.minThen, typing.asked[1])
\* C20 (amended): the same with the signal lasting max(durationMs, cfg.minDurationMs).
C20_ActiveForClampedDuration ==
    /\ [](ExplicitTrigger =>
            /\ typing.active => typing.elapsed <= Lasting
            /\ typing.elapsed < Lasting => typing.active
            /\ TimerCleared => typing.elapsed = Lasting /\ typing.shown = "empty")
    /\ TriggerThenClear
\* a signal asked for 100 ms under minDurationMs = 300 was taken down by its timer
C20_Witness ==
    /\ ExplicitTrigger /\ TimerCleared
    /\ typing.asked = <<100>> /\ typing.minThen = DefaultMinDurationMs
    /\ typing.elapsed = DefaultMinDurationMs
    /\ typing.shown = "empty"

\* what clear() would leave, and what a second clear() would leave after it
Cleared1 == AfterClear(typing, typingTimers)
Cleared2 == AfterClear(Cleared1.typing, Cleared1.timers)
\* C21: clear() force-clears immediately in any state: afterwards isActive() is false,
\* no auto-clear timer is pending and the typing sink has been called with an empty
\* sequence; clear() on an inactive signal is harmless and calling it twice equals
\* calling it once.
C21_ClearForces ==
    /\ ~Cleared1.typing.active
    /\ Cleared1.timers = {} /\ Cleared1.typing.clearTimer = 0
    /\ Cleared1.typing.shown = "empty"
    /\ Cleared2 = Cleared1
    /\ ~typing.active =>
          /\ Cleared1.timers = typingTimers
          /\ Cleared1.typing = [typing EXCEPT !.shown = "empty", !.cleared = "clear"]
    /\ typing.cleared = "clear" => ~typing.active /\ typingTimers = {}
\* clear() took down a signal whose timer had 200 ms or more left
C21_Witness ==
    /\ typing.cleared = "clear" /\ ~typing.active /\ typing.shown = "empty"
    /\ typing.asked = <<500>> /\ typing.elapsed = 300
    /\ typingTimers = {}

\* the class the thresholds give to the elapsed time d
ClassOf(d) == IF d < 90000 THEN "online" ELSE IF d < 300000 THEN "idle" ELSE "offline"
\* C22: presence classification is a total function of the elapsed time
\* d = now - lastActive: online when d < 90000 ms, idle when 90000 <= d < 300000 ms,
\* offline otherwise (30000 -> online, 200000 -> idle, 400000 -> offline), and the
\* online count uses exactly these thresholds.
C22_PresenceThresholds ==
    /\ \A i \in 1..Len(presence.members) :
          presence.members[i] # Null =>
              /\ PresenceOf(presence.members[i], presence.now)
                   = ClassOf(presence.now - presence.members[i][1])
              /\ PresenceOf(presence.members[i], presence.now) \in {"online", "idle", "offline"}
    /\ PresenceOf(<<presence.now - 30000>>, presence.now) = "online"
    /\ PresenceOf(<<presence.now - 200000>>, presence.now) = "idle"
    /\ PresenceOf(<<presence.now - 400000>>, presence.now) = "offline"
    /\ presence.online =
          Cardinality({i \in 1..Len(presence.counted) :
                          presence.counted[i] # Null /\ presence.counted[i][1] < 90000})
\* the count was displayed with one member just below the threshold and one on it,
\* and time has passed
C22_Witness ==
    /\ presence.online = 1
    /\ \E i, j \in 1..Len(presence.counted) :
          presence.counted[i] = <<89999>> /\ presence.counted[j] = <<90000>>
    /\ presence.steps > 0

\* C23: with a non-null seedBase a run is fully reproducible: two manual-mode runs
\* with the same seedBase and options, started from the same cursor over the same
\* pool, make the same typing-or-immediate decisions and schedule the same render
\* and loop delays.
C23_SeededRunsRepeat ==
    (repro.seedBase # Null /\ repro.before # <<>>) =>
        \A n \in 1..Len(repro.trace) : repro.trace[n] = repro.before[1][n]
\* a seeded run was played to its end a second time, with messages typed and not
C23_Witness ==
    /\ repro.seedBase # Null /\ repro.before # <<>>
    /\ Len(repro.trace) = ReproLen
    /\ \E n, k \in 1..ReproLen : repro.trace[n].typing /\ ~repro.trace[k].typing
    /\ \E n, k \in 1..ReproLen : repro.trace[n].next # repro.trace[k].next

\* the page a view of the same constants makes when every message is generated on demand
OnDemandPage(start) ==
    LET ixs == MakePageIndices(start, viewOpts.pageSize, viewOpts.totalSize,
                               viewOpts.allowWrap)
    IN [k \in 1..Len(ixs) |->
           GenerateMessageForIndex(
               [i |-> ixs[k], seedBase |-> viewOpts.seedBase, size |-> viewOpts.totalSize,
                spanDays |-> viewOpts.spanDays, replyK |-> meta.replyFraction],
               people, now)]
\* the ids of a page, in order
PageIds(page) == [k \in 1..Len(page) |-> page[k].id]
\* C24: the materialized and the on-demand path of the generator view are transparent
\* to the caller: for the same pool configuration and every request, a view backed by
\* a generated message array and a view generating each message on demand return
\* pages of the same length whose messages have the same ids at the same positions.
C24_SamePageShape ==
    viewOpts # <<>> =>
        /\ \A key \in DOMAIN pageCache : PageIds(pageCache[key]) = PageIds(OnDemandPage(key))
        /\ \A s \in ViewIndices :
              PageIds(MakePage(PageStart(s), now)) = PageIds(OnDemandPage(PageStart(s)))
\* a page sliced from the generated array was returned and cached, holding a message
\* that generation on demand gives another text
C24_Witness ==
    /\ viewOpts # <<>> /\ Len(messages) > 0
    /\ \E key \in DOMAIN pageCache :
          /\ pageCache[key] # <<>>
          /\ \E k \in 1..Len(pageCache[key]) :
                /\ pageCache[key][k] = messages[key + k]
                /\ pageCache[key][k].text # OnDemandPage(key)[k].text

\* the manual loop of run r finds its page used up
Exhausted(r) == running /\ r \in loopTimers /\ loop[r].idx >= Len(loop[r].page)
\* the start of the page fetched next by run r (part_000:138-142)
NextStart(r) ==
    IF ViewTotalSize # 0 /\ loop[r].start + PageSize >= ViewTotalSize
    THEN 0 ELSE loop[r].start + PageSize
\* no page is left for run r: the next page is empty, and so is the page at 0
NothingLeft(r) == ViewNextPage(NextStart(r)) = <<>> /\ ViewNextPage(0) = <<>>
C26_OptionsClamped ==
    /\ conf.ratePerMin >= 1
    /\ conf.pageSize >= 1
    /\ conf.jitterK >= 0 /\ conf.jitterK <= 100
    /\ conf.typingFractionK >= 0 /\ conf.typingFractionK <= 100
\* calls have left every one of the four options at a bound it was clamped to
C26_Witness ==
    /\ conf.touched
    /\ conf.ratePerMin = 1 /\ conf.pageSize = 1
    /\ conf.jitterK = 100 /\ conf.typingFractionK = 0

\* C27: after any sequence of configure() calls, in any order and with any subset of
\* options per call, typingMaxMs >= typingMinMs, so every computed typing duration
\* lies in [typingMinMs, typingMaxMs].
C27_TypingBoundsOrdered ==
    /\ conf.typingMaxMs >= conf.typingMinMs
    /\ \A chars \in TextLengths :
          /\ TypingDurationUnder(conf, chars) >= conf.typingMinMs
          /\ TypingDurationUnder(conf, chars) <= conf.typingMaxMs

\* C28: generation never fails: for every index >= 0 and every positive size and span
\* the generator returns a message, and when no person directory is available the
\* sender is a placeholder (name Member_((index mod 5000)+1), role VERIFIED, empty
\* avatar) and outbound is false.
C28_PlaceholderSender ==
    \A k \in 1..Len(genCalls) :
        /\ genCalls[k].id = MsgId(genArgs.i)
        /\ genCalls[k].out = FALSE
        /\ people = 0 =>
              /\ genCalls[k].name = <<"Member_", (genArgs.i % 5000) + 1>>
              /\ genCalls[k].role = "VERIFIED"
              /\ genCalls[k].avatar = ""
\* a message was generated beyond index 5000 with no directory loaded, for a pool of
\* one message spanning one day
C28_Witness ==
    /\ people = 0 /\ Len(genCalls) >= 1
    /\ genArgs.i >= 5000 /\ genArgs.size = 1 /\ genArgs.spanDays = 1
    /\ genCalls[1].name[2] < genArgs.i

\* C29: person generation is deterministic: two calls generate(size, seed) with the same
\* arguments return directories in which person i is identical in every field (id,
\* name, displayName, role, avatar, lastActive), for every i.
C29_PeopleDeterministic ==
    synth.first # Null =>
        /\ Len(synth.latest[1]) = Len(synth.first[1])
        /\ \A i \in 1..Len(synth.first[1]) : synth.latest[1][i] = synth.first[1][i]

\* start() has been called with typing simulation on (so in manual-stream mode) over a
\* pool that has messages, and no stop() since
ManualStarted ==
    /\ started /\ stops = 0
    /\ pool \in {"virtual", "materialized"}
    /\ cfg.simulateTypingBeforeSend /\ currentStreamer = 0
\* C30: playback makes progress: in manual-stream mode, after start() with a non-empty
\* pool and no stop(), a message is eventually handed to the render sink, and every
\* emission is followed by another scheduled loop iteration, so emission continues
\* for as long as the scheduler is not stopped and the pool is not exhausted.
C30_PlaybackProgress ==
    /\ [](ManualStarted => <>(rendered # <<>> \/ stops > 0))
    /\ [][\A r \in RunIds :
            (EmitNext(r) /\ emitted' # emitted) => (r \in loopTimers' /\ mainTimer' = r)]_vars
    /\ \A n \in 0..(MaxEmit - 1) :
          []((ManualStarted /\ running /\ Len(emitted) = n)
                 => <>(Len(emitted) > n \/ ~running))

\* the text length of the n-th message of the current run
CharsOf(n) == repro.chars[((n - 1) % Len(repro.chars)) + 1]
\* chars * typingPerCharMs clamped to [typingMinMs, typingMaxMs]
ClampedDuration(n) == Max(TypingMinMs, Min(TypingMaxMs, CharsOf(n) * TypingPerCharMs))
\* C31: when a message is emitted with typing simulation, the typing signal is raised
\* with the sender's display name before the message is rendered, the typing duration
\* is chars*typingPerCharMs clamped to [typingMinMs, typingMaxMs], and the render fires
\* between typingDuration-90 ms and typingDuration+90 ms after the signal; without
\* typing simulation the render happens in the same loop iteration.
C31_TypingThenRender ==
    /\ Len(repro.signals) = Len(repro.trace)
    /\ \A n \in 1..Len(repro.trace) :
          IF repro.trace[n].typing
          THEN /\ repro.signals[n] # Null
               /\ repro.signals[n][1].names = <<ReproMessage(CharsOf(n), n - 1).displayName>>
               /\ repro.signals[n][1].durationMs = ClampedDuration(n)
               /\ repro.trace[n].render > 0
               /\ repro.trace[n].render >= ClampedDuration(n) - 90
               /\ repro.trace[n].render <= ClampedDuration(n) + 90
          ELSE repro.signals[n] = Null /\ repro.trace[n].render = 0
\* a run emitted one message behind a typing signal, rendered at the very end of the
\* window, and one message without
C31_Witness ==
    \E n, n2 \in 1..Len(repro.trace) :
        /\ repro.trace[n].typing /\ repro.signals[n] # Null
        /\ repro.trace[n].render = ClampedDuration(n) + 90
        /\ ~repro.trace[n2].typing

\* C32: reply linkage follows the stated window: no message with index <= 8 has a
\* replyTo, and for a reply at index i the replyTo is the id of the message at index
\* i - offset for some offset in [2, min(500, i-2)].
C32_ReplyWindow ==
    \A c \in 1..Len(genCalls) :
        /\ genArgs.i <= 8 => genCalls[c].replyTo = Null
        /\ genCalls[c].replyTo # Null =>
              \E offset \in 2..Min(500, genArgs.i - 2) :
                  genCalls[c].replyTo = MsgId(genArgs.i - offset)

\* C33: pool-level de-duplication is bounded and always terminates: for each index
\* generatePool makes at most 6 regeneration attempts and then accepts the text even
\* if it still collides, the recency set never holds more than 2048 hashes, and
\* generatePool returns exactly `size` messages.
C33_DedupeBounded ==
    /\ dedupe.attempts <= 6
    /\ Len(dedupe.lru) <= 2048
    /\ dedupe.i <= dedupe.size
    /\ dedupe.ret # Null => dedupe.ret[1] = dedupe.size
\* a run of more than 2048 passes has returned; its list is full and has dropped a
\* hash, and its last pass kept a text still held by the list after 6 attempts
C33_Witness ==
    /\ dedupe.ret # Null /\ dedupe.size > LruCap
    /\ Len(dedupe.lru) = LruCap /\ dedupe.dropped
    /\ dedupe.attempts = MaxAttempts /\ dedupe.held

\* C34: whenever generatePool accepts a text for an index after fewer than 6
\* regeneration attempts, that text's hash differs from every hash currently in the
\* recency set.
C34_AcceptedIsNew ==
    (dedupe.i > 0 /\ dedupe.attempts < 6) => ~dedupe.held
\* a pass regenerated the text twice and kept the third, its hash not held, with the
\* list full
C34_Witness ==
    /\ dedupe.i > 0 /\ dedupe.attempts = 2 /\ ~dedupe.held
    /\ Len(dedupe.lru) = LruCap /\ dedupe.dropped

\* C35: every triggerTyping call passes the typing sink a non-empty list of at most
\* maxNames names: supplied names are used (truncated to maxNames); with no names
\* supplied, names are sampled from the available person source; with no names and no
\* person source the list is exactly one placeholder name.
C35_NamesShown ==
    typing.call # Null =>
        LET c == typing.call[1]
            given == Truthy(c.names)
            named == Truthy(c.members)
        IN /\ typing.list # <<>> /\ Len(typing.list) <= c.maxNames
           /\ Falsy \notin NamesOf(typing.list)
           /\ given # <<>> => typing.list = Slice(given, c.maxNames)
           /\ (given = <<>> /\ named # <<>> /\ named = c.members) =>
                  NamesOf(typing.list) \subseteq NamesOf(c.members)
           /\ (given = <<>> /\ named = <<>> /\ people > 0) =>
                  NamesOf(typing.list) \subseteq NamesOf(PeopleNames(people))
           /\ (given = <<>> /\ typing.list # <<Someone>>) =>
                  NamesOf(typing.list) \subseteq
                      NamesOf(c.members) \cup NamesOf(PeopleNames(people))
           /\ (given = <<>> /\ named = <<>> /\ people = 0) => typing.list = <<Someone>>
\* a call with four names under maxNames = 2 has shown the first two; the sink shows them
C35_Witness ==
    /\ typing.call # Null /\ typing.shown = "names"
    /\ Len(Truthy(typing.call[1].names)) > typing.call[1].maxNames
    /\ Len(typing.list) = 2
\* a call without names has shown two or more sampled members
C35_WitnessSampled ==
    /\ typing.call # Null /\ Truthy(typing.call[1].names) = <<>>
    /\ Len(typing.list) >= 2 /\ typing.list[1][1] = "member"

\* C36: simulatePresenceStep(percent) updates lastActive of exactly
\* round(total * percent) distinct persons, each to a time within the last 5 minutes,
\* and changes nothing else: no person is added or removed, no other field of any
\* person changes, and persons outside the chosen subset keep their lastActive.
C36_PresenceSubset ==
    synth.step # Null =>
        LET st == synth.step[1]
            ppl == synth.latest[1]
            chosen == {st.idx[k] : k \in 1..Len(st.idx)}
            percent == IF st.percent = Null THEN DefaultPercent ELSE st.percent[1]
        IN /\ Cardinality(chosen) = RoundPercent(Len(st.before), percent)
           /\ \A i \in chosen : /\ ppl[i].lastActive.clock = st.clock
                                /\ ppl[i].lastActive.back \in 0..NudgeMs
           /\ Len(ppl) = Len(st.before)
           /\ \A i \in 1..Len(ppl) :
                  /\ [ppl[i] EXCEPT !.lastActive = st.before[i].lastActive] = st.before[i]
                  /\ i \notin chosen => ppl[i] = st.before[i]

\* C37: the cursor always denotes the next message not yet emitted: after any sequence
\* of emissions (manual loop iterations, stream-API emissions, triggerOnce calls) the
\* cursor equals the index of the last emitted message plus one, so a triggerOnce()
\* issued after a manual run emits the successor of the run's last message and never
\* repeats it.
C37_CursorIsNext ==
    LET n == Len(emitted)
    IN /\ n >= 1 => pageIdx = emitted[n].m + 1
       /\ (n >= 2 /\ emitted[n].kind = "once" /\ emitted[n - 1].kind = "manual") =>
              emitted[n].m = emitted[n - 1].m + 1

\* the recency list holds the keys of the cached pages, each once
OrderIsKeys ==
    /\ {pageOrder[j] : j \in 1..Len(pageOrder)} = DOMAIN pageCache
    /\ Len(pageOrder) = Cardinality(DOMAIN pageCache)
\* a get() of an index whose page is not cached
GetMiss == \E index \in ViewIndices : PageStart(index) \notin DOMAIN pageCache /\ Get(index)
\* C38: in every reachable state of a generator view the page cache holds at most
\* max(3, cachePages) pages and the recency list contains exactly the keys of the
\* cached pages, each once; a get() that misses the cache leaves the cache unchanged.
C38_CacheBounded ==
    /\ [](viewOpts # <<>> =>
             /\ Cardinality(DOMAIN pageCache) <= Max(3, viewOpts.cachePages)
             /\ OrderIsKeys)
    /\ [][GetMiss => UNCHANGED <<pageCache, pageOrder>>]_vars
\* C38, amended: the page cache holds at most max(3, cachePages) pages, cachePages
\* counting as 12 when the option is 0 or left out; the recency list contains exactly
\* the keys of the cached pages, each once; a get() that misses the cache leaves the
\* cache unchanged.
C38_CacheBoundedByDefault ==
    /\ [](viewOpts # <<>> =>
             /\ Cardinality(DOMAIN pageCache) <= Max(3, Or(viewOpts.cachePages, 12))
             /\ OrderIsKeys)
    /\ [][GetMiss => UNCHANGED <<pageCache, pageOrder>>]_vars
\* a view made with cachePages 1 holds three pages after a fourth was cached, and a view
\* made with cachePages 0 holds four
C38_Witness ==
    \/ /\ viewOpts # <<>> /\ viewOpts.cachePages = 1
       /\ Len(pageOrder) = 3 /\ Len(Dropped) > 0
    \/ /\ viewOpts # <<>> /\ viewOpts.cachePages = 0 /\ Len(pageOrder) = 4

\* C39: while TypingEngine.isActive() is true the typing indicator stays displayed: no
\* auto-hide or clear timer started by an earlier trigger (in the UI adapter's
\* showTyping, or in the scheduler's fallback typing path used when TypingEngine is
\* absent) hides or clears the indicator shown by a later trigger before that later
\* trigger's own duration has elapsed.
C39_IndicatorStays ==
    /\ (ui.engine /\ typing.active
          /\ \E t \in typingTimers : t.id = typing.clearTimer /\ t.left > 0) => ui.row
    /\ (~ui.engine /\ ui.due > 0) => ui.row

\* ------------------------------------------------------- specifications
\* the scheduler, over a pool that is not looked into
InitSide == InitSchedIdle /\ InitTyping /\ InitPresenceIdle /\ InitReproIdle /\ InitConf
            /\ InitSynthIdle /\ InitDedupeIdle /\ InitUiIdle
Init == InitEngine /\ InitEnv({0}) /\ InitGenIdle /\ InitPool /\ InitViewIdle /\ InitSide
Spec == Init /\ [][NextEngine]_vars
EngineIdle == InitEngine /\ pool = "none"
\* calls of the single-index generator
InitGenSpec == EngineIdle /\ InitEnv(PeopleCounts) /\ InitGen /\ InitPool /\ InitViewIdle
               /\ InitSide
SpecGen == InitGenSpec /\ [][NextGen]_vars
InitGenWideSpec == EngineIdle /\ InitEnv(PeopleCounts) /\ InitGenWide /\ InitPool
                   /\ InitViewIdle /\ InitSide
SpecGenWide == InitGenWideSpec /\ [][NextGen]_vars
\* generatePool and the accessors of the pool
InitPoolSpec == EngineIdle /\ InitEnv(PeopleCounts) /\ InitGenIdle /\ InitPool /\ InitViewIdle
                /\ InitSide
SpecPool == InitPoolSpec /\ [][NextPool]_vars
\* one generator view over a pool that was not generated
InitViewSpec == EngineIdle /\ InitEnv({0}) /\ InitGenIdle /\ (InitPool \/ InitPoolLoaded)
                    /\ InitView /\ InitSide
SpecView == InitViewSpec /\ [][NextView]_vars
\* views made with cachePages 1 and 0
InitCacheSpec == EngineIdle /\ InitEnv({0}) /\ InitGenIdle /\ InitPool /\ InitViewCaches
                 /\ InitSide
SpecCache == InitCacheSpec /\ [][NextCache]_vars
\* the delays of the manual loop under every rate and jitter fraction configured
InitDelaysSpec == EngineIdle /\ InitEnv({0}) /\ InitGenIdle /\ InitPool /\ InitViewIdle
                  /\ InitSide
SpecDelays == InitDelaysSpec /\ [][NextDelays]_vars
\* the scheduler on a page whose render sink throws for one message
InitSinkSpec == InitEngineBadSink /\ InitEnv({0}) /\ InitGenIdle /\ InitPool /\ InitViewIdle
                /\ InitSide
SpecSink == InitSinkSpec /\ [][NextEngine]_vars
\* the typing engine; time passes and a timer whose delay has elapsed runs
InitTypingSpec == EngineIdle /\ InitEnv({0}) /\ InitGenIdle /\ InitPool /\ InitViewIdle
                  /\ InitSide
\* presence classification and the online count of the UI adapter
InitPresenceSpec == EngineIdle /\ InitEnv({0}) /\ InitGenIdle /\ InitPool /\ InitViewIdle
                    /\ InitSchedIdle /\ InitTyping /\ InitPresence /\ InitReproIdle /\ InitConf
                    /\ InitSynthIdle /\ InitDedupeIdle /\ InitUiIdle
SpecPresence == InitPresenceSpec /\ [][NextPresence]_vars
\* manual-mode runs repeated under one configuration
InitReproSpec == EngineIdle /\ InitEnv({0}) /\ InitGenIdle /\ InitPool /\ InitViewIdle
                 /\ InitSchedIdle /\ InitTyping /\ InitPresenceIdle /\ InitRepro /\ InitConf
                 /\ InitSynthIdle /\ InitDedupeIdle /\ InitUiIdle
SpecRepro == InitReproSpec /\ [][NextRepro]_vars
SpecTyping == InitTypingSpec /\ [][NextTyping]_vars
\* the typing row of a page with the UI adapter
InitIndicatorSpec == EngineIdle /\ InitEnv({0}) /\ InitGenIdle /\ InitPool /\ InitViewIdle
                     /\ InitSchedIdle /\ InitTyping /\ InitPresenceIdle /\ InitReproIdle
                     /\ InitConf /\ InitSynthIdle /\ InitDedupeIdle /\ InitUi
SpecIndicator == InitIndicatorSpec /\ [][NextIndicator]_vars
\* the names of the typing signal, with no person loaded and with three
InitNamesSpec == EngineIdle /\ InitEnv({0, 3}) /\ InitGenIdle /\ InitPool /\ InitViewIdle
                 /\ InitSide
SpecNames == InitNamesSpec /\ [][NextNames]_vars
\* runs of generatePool by the hashes of the texts generated
InitDedupeSpec == EngineIdle /\ InitEnv({0}) /\ InitGenIdle /\ InitPool /\ InitViewIdle
                  /\ InitSide
SpecDedupe == InitDedupeSpec /\ [][NextDedupe]_vars
\* the scheduler when every pending timer and interval callback runs in the end
FairTimers == WF_vars(EmitNextStep) /\ WF_vars(StreamTickStep) /\ WF_vars(RenderDelayedStep)
SpecFair == Init /\ [][NextEngine]_vars /\ FairTimers
\* calls of SyntheticPeople.generatePool with one set of options
InitSynthSpec == EngineIdle /\ InitEnv({0}) /\ InitGenIdle /\ InitPool /\ InitViewIdle
                 /\ InitSchedIdle /\ InitTyping /\ InitPresenceIdle /\ InitReproIdle
                 /\ InitConf /\ InitSynth /\ InitDedupeIdle /\ InitUiIdle
SpecSynth == InitSynthSpec /\ [][NextSynth]_vars
\* the directory generated and its presence nudged
InitNudgeSpec == EngineIdle /\ InitEnv({0}) /\ InitGenIdle /\ InitPool /\ InitViewIdle
                 /\ InitSchedIdle /\ InitTyping /\ InitPresenceIdle /\ InitReproIdle
                 /\ InitConf /\ InitSynthOn({MinPeople}, {0, 7}) /\ InitDedupeIdle /\ InitUiIdle
SpecNudge == InitNudgeSpec /\ [][NextNudge]_vars
\* calls of configure and setRate on the options as loaded
InitConfSpec == EngineIdle /\ InitEnv({0}) /\ InitGenIdle /\ InitPool /\ InitViewIdle
                /\ InitSide
SpecConf == InitConfSpec /\ [][NextConf]_vars
\* the scheduler beside any pool, those without a generator view included
InitExhaustSpec == InitSchedulerOn({"none", "virtual", "materialized"} \cup LegacyPools)
                   /\ badMsg = NoBad
                   /\ InitEnv({0}) /\ InitGenIdle /\ InitPool /\ InitViewIdle /\ InitSide
SpecExhaust == InitExhaustSpec /\ [][NextEngine]_vars
FairTyping == WF_vars(FireClearStep) /\ WF_vars(PassTimeStep)
SpecTypingFair == InitTypingSpec /\ [][NextTyping]_vars /\ FairTyping
====
